---- MODULE Spec2Model ----
(***************************************************************************)
(* Verification model of the rps-game repository.                          *)
(*                                                                         *)
(*  - SpecAuto : the Auto-Finalization Service (autoFinalizeSolGame),      *)
(*               several invocations interleaving at their awaits, against *)
(*               the on-chain game account.                                *)
(*  - SpecFin  : the client's finalizeGame (use-anchor-program.ts) with    *)
(*               its recovery cascade, against the on-chain game account.  *)
(*  - SpecGame : the client's session state machine (use-game.ts) and the  *)
(*               coordinator that feeds it events.                         *)
(*  - SpecPlay : the same client once a match has started: moves, rounds,  *)
(*               timers, forfeits, and events delivered more than once.    *)
(*  - SpecCalc : single calls of the handlers and helpers that compute a   *)
(*               result from their arguments alone, over all arguments.    *)
(*  - SpecStake: the client staking for a SOL session when the transport   *)
(*               delivers a stake request twice.                           *)
(*  - SpecDecline: the creator of a private session whose invitation is    *)
(*               declined, and the delayed reset that follows.             *)
(*  - SpecWin  : the winnings list (use-winnings.ts), its fetches and the  *)
(*               renders between them.                                     *)
(*                                                                         *)
(* The on-chain program and the socket server are not part of the sources; *)
(* the operators that stand for them are written from the specification.   *)
(***************************************************************************)
EXTENDS Integers, Sequences, FiniteSets, TLC

\* ---------------------------------------------------------------- bounds
\* Number of autoFinalizeSolGame invocations triggered for the session.
MaxInvocations == 2

Inv == 1..MaxInvocations
Players == {"p1", "p2"}

VARIABLES
  \* --- process-wide state of the Auto-Finalization Service
  serviceWallet,   \* part_010:29  TRUE once initializeService has loaded the key
  \* --- the on-chain game account and the winner's profile
  chain,           \* game account: exists, hasP2, status, winner, escrow, paidTo, markedBy
  winnerProfile,   \* "noAccount" | "noReferrer" | "hasReferrer"
  realWinner,      \* the off-chain result of the match
  \* --- autoFinalizeSolGame invocations
  apc,             \* position of each invocation
  aWinnerArg,      \* winnerPublicKey argument
  aSeen,           \* what the on-chain account showed when the invocation read it
  aSubs,           \* ledger submissions of the invocation, in order
  aAfter,          \* what earlier invocations had returned when this one was called
  aFail,           \* first failing step of the invocation ("none" if none)
  aSubsAtFail,     \* number of submissions made when that step failed
  aThrown,         \* the step whose error reached the outer catch ("none" if none)
  aReferrer,       \* referrer account chosen for the finalize instruction
  aResult,         \* "pending" | "true" | "false" | "threw"
  txLog,           \* every ledger submission of the service: [inv, kind, ok, statusBefore]
  \* --- the client's finalizeGame (use-anchor-program.ts)
  fpc,             \* position of the running call ("idle" before the first, "done" after one)
  fCalls,          \* number of calls made so far
  fCaller,         \* the player whose client makes the call (publicKey)
  fAcc,            \* gameAccount: the account as decoded at the start of the call
  fRecovery,       \* "none" | "running" | "finished" | "failed" | "refunded"
  fSubs,           \* transactions the call has submitted: [kind, res, finishedBefore, recovery]
  fResult,         \* "pending" | "true" | "false" | "threw"
  \* --- the client's session state (use-game.ts) and the coordinator feeding it
  gameState,       \* use-game.ts:72  gameId (0 = null), gameType, currency, gameStatus, hasP2,
                   \*                 currentRound, wins, moves (currentMove), ready, winner
  isInGame,        \* use-game.ts:87
  countdowns,      \* running countdown intervals started by handleGameStarted
  stakeOps,        \* stake transactions awaited by a handler: [game, kind, via]
  down,            \* events from the coordinator to the client, in order
  up,              \* events from the client to the coordinator, in order
  sessions,        \* the coordinator's sessions, by game id
  myStake,         \* the client's own stake transaction per game: none | pending | confirmed | failed
  ackLog,          \* stake acknowledgments the client has sent: [game, kind, via, staked, tx, afterLeave]
  failLog,         \* stake failures the client has handled: [game, stateKept, acksKept]
  onErrors,        \* kinds of error reported through options.onError
  leftLog,         \* player-initiated leaves: [game, status, gameType, creator, staked, refundIssued]
  srvAckLog,       \* acknowledgments the coordinator has received: [game, slot, dup]
  \* --- the match in progress
  match,           \* the coordinator's view of the match: status, round, wins, moves, winner
  roundTimers,     \* rounds for which a handleNextRound timeout is pending
  duplicated,      \* number of messages the transport has delivered twice
  hist,            \* what has happened: onGameFinished calls, forfeits, late moves and
                   \* submissions, rounds the user has moved in
  \* --- declined invitations
  declineTimers,   \* use-game.ts:734  sessions whose declined invitation has its reset
                   \*                  timeout pending
  \* --- the winnings list (use-winnings.ts)
  useWinnings,     \* use-winnings.ts:33-41  state (winnings, loading, error, hasMore), the
                   \*   state the current callbacks were rendered with, offsetRef (in pages),
                   \*   the requests in flight and the number of requests made
  \* --- single calls
  calc             \* the last call made: [op, arg, out]

autoVars == <<serviceWallet, chain, winnerProfile, realWinner, apc, aWinnerArg, aSeen,
              aSubs, aAfter, aFail, aSubsAtFail, aThrown, aReferrer, aResult, txLog>>

finVars == <<fpc, fCalls, fCaller, fAcc, fRecovery, fSubs, fResult>>

gameVars == <<gameState, isInGame, countdowns, stakeOps, down, up, sessions,
              myStake, ackLog, failLog, onErrors, leftLog, srvAckLog>>

\* Everything the client holds; the coordinator's handlers leave it alone.
clientState == <<gameState, isInGame, countdowns, stakeOps, myStake, ackLog, failLog,
                 onErrors, leftLog>>

playVars == <<match, roundTimers, duplicated, hist>>

declineVars == <<declineTimers>>

winVars == <<useWinnings>>

vars == <<autoVars, finVars, gameVars, playVars, declineVars, winVars, calc>>

\* ------------------------------------------------ the winnings list
\* useState's initial value, offsetRef = 0, nothing requested yet. The list is kept as
\* the sequence of pages it was built from, a page being named by its offset.
NoWinnings ==
  [state |-> [winnings |-> <<>>, loading |-> FALSE, error |-> FALSE, hasMore |-> TRUE],
   rendered |-> [loading |-> FALSE, hasMore |-> TRUE],
   offsetRef |-> 0, inflight |-> {}, requests |-> 0]

\* ------------------------------------------------ the on-chain game account
NoGame == [exists |-> FALSE, hasP2 |-> FALSE, status |-> "none", winner |-> "none",
           escrow |-> "empty", paidTo |-> "none", markedBy |-> "none",
           commit |-> {}, revealed |-> {}]

CreatedGame == [exists |-> TRUE, hasP2 |-> FALSE, status |-> "waiting", winner |-> "none",
                escrow |-> "held", paidTo |-> "none", markedBy |-> "none",
                commit |-> {}, revealed |-> {}]

StakedGame == [exists |-> TRUE, hasP2 |-> TRUE, status |-> "inProgress", winner |-> "none",
               escrow |-> "held", paidTo |-> "none", markedBy |-> "none",
               commit |-> {}, revealed |-> {}]

\* The states the account of a session whose match has completed off-chain can be in:
\* never created (no stake was taken), created by the creator only, staked by both.
InitialChains == {NoGame, CreatedGame, StakedGame}

\* set_winner: the program marks the game finished with the given winner.  It can only
\* be accepted for a game both players have staked in and whose escrow is still held.
LedgerSetWinnerAccepts(c) == c.exists /\ c.hasP2 /\ c.escrow = "held"
                             /\ c.status \in {"inProgress", "finished"}

LedgerSetWinner(c, w, by) == [c EXCEPT !.status = "finished", !.winner = w, !.markedBy = by]

\* finalize_game: pays the winner, the platform fee and the referral cut in one
\* transaction; accepted only for a finished game with a winner and a held escrow.
LedgerFinalizeAccepts(c) == c.exists /\ c.status = "finished" /\ c.winner \in Players
                            /\ c.escrow = "held"

LedgerFinalize(c) == [c EXCEPT !.escrow = "paid", !.paidTo = c.winner]

\* A submitted transaction either fails (RPC error, rejected by the program) or, when
\* the program accepts it, succeeds.
TxOutcomes(accepts) == IF accepts THEN {TRUE, FALSE} ELSE {FALSE}

\* ------------------------------------------------ autoFinalizeSolGame
\* part_010:339-358  the outer catch: every thrown error resolves to false.
CatchResult_Rethrow == "threw"
CatchResult == "false"

\* part_010:234-237  a failed set_winner is rethrown to the outer catch.
AfterSetWinnerFailure_Swallow == "readProfile"
AfterSetWinnerFailure == "done"

\* part_010:287-289  a failed winner-profile read falls back to the defaults.
AfterProfileFailure == "finalize"

\* A step of invocation i fails: the error is either thrown to the outer catch
\* (next = "done", the invocation returns) or swallowed (the invocation goes on).
AutoFailTo(i, step, next) ==
  /\ apc' = [apc EXCEPT ![i] = next]
  /\ aFail' = [aFail EXCEPT ![i] = IF @ = "none" THEN step ELSE @]
  /\ aSubsAtFail' = [aSubsAtFail EXCEPT ![i] = IF aFail[i] = "none" THEN Len(aSubs'[i]) ELSE @]
  /\ aThrown' = [aThrown EXCEPT ![i] = IF next = "done" THEN step ELSE @]
  /\ aResult' = [aResult EXCEPT ![i] = IF next = "done" THEN CatchResult ELSE @]

\* part_010:37-64  initializeService loads the service wallet.
InitializeService ==
  /\ ~serviceWallet
  /\ serviceWallet' = TRUE
  /\ UNCHANGED <<chain, winnerProfile, realWinner, apc, aWinnerArg, aSeen, aSubs, aAfter,
                 aFail, aSubsAtFail, aThrown, aReferrer, aResult, txLog>>

\* part_010:100-139  the call, up to the first await (getAccountInfo).
AutoStart(i) ==
  /\ apc[i] = "idle"
  /\ aWinnerArg' = [aWinnerArg EXCEPT ![i] = realWinner]
  /\ aAfter' = [aAfter EXCEPT ![i] =
        [failed  |-> \E j \in Inv : apc[j] = "done" /\ aResult[j] = "false",
         settled |-> \E j \in Inv : apc[j] = "done" /\ aResult[j] = "true"]]
  /\ UNCHANGED <<aSubs>>
  /\ IF ~serviceWallet
       THEN AutoFailTo(i, "wallet", "done")
       ELSE /\ apc' = [apc EXCEPT ![i] = "getAccount"]
            /\ UNCHANGED <<aFail, aSubsAtFail, aThrown, aResult>>
  /\ UNCHANGED <<serviceWallet, chain, winnerProfile, realWinner, aSeen, aReferrer, txLog>>

\* (variant) the option tag of player2 is not looked at.
HasPlayer2_Any(c) == TRUE

\* part_010:168-176  the option tag of player2 in the account data.
HasPlayer2(c) == c.hasP2

\* part_010:140-200  read the game account; it must exist and have a player2.
\* Nothing else of the account (status, winner) is looked at.
AutoGetAccount(i) ==
  /\ apc[i] = "getAccount"
  /\ UNCHANGED <<aSubs>>
  /\ \E rpcOk \in BOOLEAN :
       /\ aSeen' = [aSeen EXCEPT ![i] =
             IF rpcOk THEN [read |-> TRUE,
                            winnerMarked |-> chain.status = "finished" /\ chain.winner \in Players,
                            settled |-> chain.escrow = "paid"]
                      ELSE @]
       /\ IF ~rpcOk THEN AutoFailTo(i, "getAccount", "done")
          ELSE IF ~chain.exists THEN AutoFailTo(i, "noAccount", "done")
          ELSE IF ~HasPlayer2(chain) THEN AutoFailTo(i, "noPlayer2", "done")
          ELSE /\ apc' = [apc EXCEPT ![i] = "setWinner"]
               /\ UNCHANGED <<aFail, aSubsAtFail, aThrown, aResult>>
  /\ UNCHANGED <<aAfter, serviceWallet, chain, winnerProfile, realWinner, aWinnerArg, aReferrer, txLog>>

\* part_010:202-237  submit set_winner(gameId, winner) signed by the service wallet.
AutoSetWinner(i) ==
  /\ apc[i] = "setWinner"
  /\ aSubs' = [aSubs EXCEPT ![i] = Append(@, "set_winner")]
  /\ \E ok \in TxOutcomes(LedgerSetWinnerAccepts(chain)) :
       /\ txLog' = Append(txLog, [inv |-> i, kind |-> "set_winner", ok |-> ok,
                                  statusBefore |-> chain.status])
       /\ IF ok
            THEN /\ chain' = LedgerSetWinner(chain, aWinnerArg[i], "service")
                 /\ apc' = [apc EXCEPT ![i] = "verify"]
                 /\ UNCHANGED <<aFail, aSubsAtFail, aThrown, aResult>>
            ELSE /\ AutoFailTo(i, "set_winner", AfterSetWinnerFailure)
                 /\ UNCHANGED chain
  /\ UNCHANGED <<aAfter, serviceWallet, winnerProfile, realWinner, aWinnerArg, aSeen, aReferrer>>

\* part_010:222-232  re-read the account after set_winner (inside the same try).
AutoVerify(i) ==
  /\ apc[i] = "verify"
  /\ UNCHANGED <<aSubs>>
  /\ \E rpcOk \in BOOLEAN :
       IF rpcOk
         THEN /\ apc' = [apc EXCEPT ![i] = "readProfile"]
              /\ UNCHANGED <<aFail, aSubsAtFail, aThrown, aResult>>
         ELSE AutoFailTo(i, "verify", AfterSetWinnerFailure)
  /\ UNCHANGED <<aAfter, serviceWallet, chain, winnerProfile, realWinner, aWinnerArg, aSeen,
                 aReferrer, txLog>>

\* part_010:254-289  look up the winner's referrer; any error keeps the defaults.
AutoReadProfile(i) ==
  /\ apc[i] = "readProfile"
  /\ UNCHANGED <<aSubs>>
  /\ \E rpcOk \in BOOLEAN :
       IF rpcOk
         THEN /\ aReferrer' = [aReferrer EXCEPT ![i] =
                   IF winnerProfile = "hasReferrer" THEN "referrer" ELSE "platform"]
              /\ apc' = [apc EXCEPT ![i] = "finalize"]
              /\ UNCHANGED <<aFail, aSubsAtFail, aThrown, aResult>>
         ELSE /\ aReferrer' = [aReferrer EXCEPT ![i] = "platform"]
              /\ AutoFailTo(i, "profile", AfterProfileFailure)
  /\ UNCHANGED <<aAfter, serviceWallet, chain, winnerProfile, realWinner, aWinnerArg, aSeen, txLog>>

\* part_010:291-337  submit the finalize_game transaction and return true.
AutoFinalize(i) ==
  /\ apc[i] = "finalize"
  /\ aSubs' = [aSubs EXCEPT ![i] = Append(@, "finalize")]
  /\ \E ok \in TxOutcomes(LedgerFinalizeAccepts(chain)) :
       /\ txLog' = Append(txLog, [inv |-> i, kind |-> "finalize", ok |-> ok,
                                  statusBefore |-> chain.status])
       /\ IF ok
            THEN /\ chain' = LedgerFinalize(chain)
                 /\ apc' = [apc EXCEPT ![i] = "done"]
                 /\ aResult' = [aResult EXCEPT ![i] = "true"]
                 /\ UNCHANGED <<aFail, aSubsAtFail, aThrown>>
            ELSE /\ AutoFailTo(i, "finalize", "done")
                 /\ UNCHANGED chain
  /\ UNCHANGED <<aAfter, serviceWallet, winnerProfile, realWinner, aWinnerArg, aSeen, aReferrer>>

InitAuto ==
  /\ serviceWallet = FALSE
  /\ chain \in InitialChains
  /\ winnerProfile \in {"noAccount", "noReferrer", "hasReferrer"}
  /\ realWinner \in Players
  /\ apc = [i \in Inv |-> "idle"]
  /\ aWinnerArg = [i \in Inv |-> "none"]
  /\ aSeen = [i \in Inv |-> [read |-> FALSE, winnerMarked |-> FALSE, settled |-> FALSE]]
  /\ aSubs = [i \in Inv |-> <<>>]
  /\ aAfter = [i \in Inv |-> [failed |-> FALSE, settled |-> FALSE]]
  /\ aFail = [i \in Inv |-> "none"]
  /\ aThrown = [i \in Inv |-> "none"]
  /\ aSubsAtFail = [i \in Inv |-> 0]
  /\ aReferrer = [i \in Inv |-> "none"]
  /\ aResult = [i \in Inv |-> "pending"]
  /\ txLog = <<>>

InitFin ==
  /\ fpc = "idle"
  /\ fCalls = 0
  /\ fCaller = "none"
  /\ fAcc = NoGame
  /\ fRecovery = "none"
  /\ fSubs = <<>>
  /\ fResult = "pending"

NextAuto ==
  \/ InitializeService /\ UNCHANGED <<finVars, gameVars, playVars, declineVars, winVars, calc>>
  \/ \E i \in Inv : AutoStart(i) /\ UNCHANGED <<finVars, gameVars, playVars, declineVars, winVars, calc>>
  \/ \E i \in Inv : AutoGetAccount(i) /\ UNCHANGED <<finVars, gameVars, playVars, declineVars, winVars, calc>>
  \/ \E i \in Inv : AutoSetWinner(i) /\ UNCHANGED <<finVars, gameVars, playVars, declineVars, winVars, calc>>
  \/ \E i \in Inv : AutoVerify(i) /\ UNCHANGED <<finVars, gameVars, playVars, declineVars, winVars, calc>>
  \/ \E i \in Inv : AutoReadProfile(i) /\ UNCHANGED <<finVars, gameVars, playVars, declineVars, winVars, calc>>
  \/ \E i \in Inv : AutoFinalize(i) /\ UNCHANGED <<finVars, gameVars, playVars, declineVars, winVars, calc>>

\* ------------------------------------------------ the client's finalizeGame
\* Number of finalizeGame calls a client makes for the session (a retry after a failure).
MaxFinCalls == 2

\* submit_move: records the caller's commitment; a second commitment of the same
\* player is rejected (MoveAlreadySubmitted), as is one for a game not in progress.
LedgerSubmitMoveAccepts(c, p) == c.exists /\ c.status = "inProgress" /\ p \notin c.commit

LedgerSubmitMove(c, p) == [c EXCEPT !.commit = @ \cup {p}]

\* reveal_moves: accepted for a player with an outstanding commitment.  A round is
\* resolved when both players have revealed; the synthetic move is always rock, so
\* two revealed moves are a draw and the game stays in progress.
LedgerRevealAccepts(c, p) == c.exists /\ c.status = "inProgress" /\ p \in c.commit
                             /\ p \notin c.revealed

LedgerReveal(c, p) ==
  IF c.revealed \cup {p} = Players
    THEN [c EXCEPT !.commit = {}, !.revealed = {}]
    ELSE [c EXCEPT !.revealed = @ \cup {p}]

\* abandon_game / finalize_abandoned_game: the administrative path; the second
\* returns each player's stake.
LedgerAbandonAccepts(c) == c.exists /\ c.status = "inProgress" /\ c.escrow = "held"

LedgerAbandon(c) == [c EXCEPT !.status = "abandoned", !.markedBy = "abandon"]

LedgerFinalizeAbandonedAccepts(c) == c.exists /\ c.status = "abandoned" /\ c.escrow = "held"

LedgerFinalizeAbandoned(c) == [c EXCEPT !.escrow = "refunded"]

\* A transaction sent through the wallet: sendTransaction throws ("sendError": the
\* user rejects, the RPC fails, the simulation fails), or it is confirmed with an
\* error ("confirmedErr"), or, when the program accepts it, it takes effect ("ok").
WalletTxResults(accepts) ==
  IF accepts THEN {"ok", "sendError", "confirmedErr"} ELSE {"sendError", "confirmedErr"}

ChainFinished(c) == c.exists /\ c.status = "finished"

FinLog(kind, res) ==
  fSubs' = Append(fSubs, [kind |-> kind, res |-> res,
                          finishedBefore |-> ChainFinished(chain),
                          recovery |-> fRecovery])

\* use-anchor-program.ts:377-392 (completionError) and 371-374 (abandonError):
\* a failed recovery step is logged and the code goes on to the finalize_game attempt.
AfterRecoveryFailure == "finalize"

\* use-anchor-program.ts:438-472  an error reaching the outer handlers is re-thrown.
FinThrow ==
  /\ fpc' = "done"
  /\ fResult' = "threw"

FinReturn(r) ==
  /\ fpc' = "done"
  /\ fResult' = r

\* use-anchor-program.ts:142-166  the call, up to the first await.
FinStart(p, connected) ==
  /\ fpc \in {"idle", "done"}
  /\ fCalls < MaxFinCalls
  /\ fCalls' = fCalls + 1
  /\ fCaller' = p
  /\ fSubs' = <<>>
  /\ fRecovery' = "none"
  /\ fAcc' = NoGame
  /\ IF connected
       THEN fpc' = "getAccount" /\ fResult' = "pending"
       ELSE FinReturn("false")
  /\ UNCHANGED chain

\* use-anchor-program.ts:167-223  fetch and decode the account; a finished game is
\* reported as already finalized; an unfinished one without a winner enters recovery.
FinGetAccount ==
  /\ fpc = "getAccount"
  /\ UNCHANGED <<chain, fCalls, fCaller, fSubs>>
  /\ \E rpcOk \in BOOLEAN :
       IF ~rpcOk THEN FinThrow /\ UNCHANGED <<fAcc, fRecovery>>
       ELSE IF ~chain.exists THEN FinReturn("false") /\ UNCHANGED <<fAcc, fRecovery>>
       ELSE /\ fAcc' = chain
            /\ IF chain.status = "finished"
                 THEN FinReturn("true") /\ UNCHANGED fRecovery
                 ELSE IF chain.winner = "none"
                   THEN fpc' = "submitMove" /\ fRecovery' = "running" /\ UNCHANGED fResult
                   ELSE fpc' = "finalize" /\ UNCHANGED <<fRecovery, fResult>>

\* A recovery step failed: go where the catch blocks lead.
FinRecoveryFailed ==
  /\ fpc' = AfterRecoveryFailure
  /\ fRecovery' = "failed"
  /\ UNCHANGED fResult

\* use-anchor-program.ts:226-259  step 1: commit the synthetic winning move (rock).
FinSubmitMove ==
  /\ fpc = "submitMove"
  /\ UNCHANGED <<fCalls, fCaller, fAcc>>
  /\ \E res \in WalletTxResults(LedgerSubmitMoveAccepts(chain, fCaller)) :
       /\ FinLog("submit_move", res)
       /\ chain' = IF res = "ok" THEN LedgerSubmitMove(chain, fCaller) ELSE chain
       /\ IF res = "sendError"
            THEN FinRecoveryFailed
            ELSE fpc' = "reveal" /\ UNCHANGED <<fRecovery, fResult>>

\* use-anchor-program.ts:261-275  step 2: reveal it with the same nonce.
FinReveal ==
  /\ fpc = "reveal"
  /\ UNCHANGED <<fCalls, fCaller, fAcc>>
  /\ \E res \in WalletTxResults(LedgerRevealAccepts(chain, fCaller)) :
       /\ FinLog("reveal_moves", res)
       /\ chain' = IF res = "ok" THEN LedgerReveal(chain, fCaller) ELSE chain
       /\ IF res = "sendError"
            THEN FinRecoveryFailed
            ELSE fpc' = "stateCheck" /\ UNCHANGED <<fRecovery, fResult>>

\* use-anchor-program.ts:279-303  re-read the account: finished with a winner goes on
\* to finalize_game, anything else (also a failed read) to the abandon pathway.
FinStateCheck ==
  /\ fpc = "stateCheck"
  /\ UNCHANGED <<chain, fCalls, fCaller, fAcc, fSubs, fResult>>
  /\ \E rpcOk \in BOOLEAN :
       IF rpcOk /\ chain.status = "finished" /\ chain.winner \in Players
         THEN fpc' = "finalize" /\ fRecovery' = "finished"
         ELSE fpc' = "abandon" /\ UNCHANGED fRecovery

\* use-anchor-program.ts:305-321  step 3: abandon_game.
FinAbandon ==
  /\ fpc = "abandon"
  /\ UNCHANGED <<fCalls, fCaller, fAcc>>
  /\ \E res \in WalletTxResults(LedgerAbandonAccepts(chain)) :
       /\ FinLog("abandon_game", res)
       /\ chain' = IF res = "ok" THEN LedgerAbandon(chain) ELSE chain
       /\ IF res = "sendError"
            THEN FinRecoveryFailed
            ELSE fpc' = "finalizeAbandoned" /\ UNCHANGED <<fRecovery, fResult>>

\* use-anchor-program.ts:323-369  step 4: finalize_abandoned_game, then return true.
FinFinalizeAbandoned ==
  /\ fpc = "finalizeAbandoned"
  /\ UNCHANGED <<fCalls, fCaller, fAcc>>
  /\ \E res \in WalletTxResults(LedgerFinalizeAbandonedAccepts(chain)) :
       /\ FinLog("finalize_abandoned_game", res)
       /\ chain' = IF res = "ok" THEN LedgerFinalizeAbandoned(chain) ELSE chain
       /\ IF res = "sendError"
            THEN FinRecoveryFailed
            ELSE FinReturn("true") /\ fRecovery' = "refunded"

\* use-anchor-program.ts:395-437  the finalize_game transaction.  Building it needs
\* the decoded player2; an account without one makes the call throw before sending.
FinFinalize ==
  /\ fpc = "finalize"
  /\ UNCHANGED <<fCalls, fCaller, fAcc, fRecovery>>
  /\ IF ~fAcc.hasP2
       THEN FinThrow /\ UNCHANGED <<chain, fSubs>>
       ELSE \E res \in WalletTxResults(LedgerFinalizeAccepts(chain)) :
              /\ FinLog("finalize_game", res)
              /\ chain' = IF res = "ok" THEN LedgerFinalize(chain) ELSE chain
              /\ IF res = "ok" THEN FinReturn("true") ELSE FinThrow

\* The Auto-Finalization Service acts on the same account while the client runs:
\* its set_winner and its finalize transaction taking effect (AutoSetWinner and
\* AutoFinalize, successful outcome).
ServiceSetWinnerLands ==
  /\ LedgerSetWinnerAccepts(chain) /\ chain.status = "inProgress"
  /\ chain' = LedgerSetWinner(chain, realWinner, "service")
  /\ UNCHANGED finVars

ServiceFinalizeLands ==
  /\ LedgerFinalizeAccepts(chain) /\ chain.markedBy = "service"
  /\ chain' = LedgerFinalize(chain)
  /\ UNCHANGED finVars

finFrame == <<serviceWallet, winnerProfile, realWinner, apc, aWinnerArg, aSeen, aSubs,
              aAfter, aFail, aSubsAtFail, aThrown, aReferrer, aResult, txLog, gameVars, playVars,
              declineVars, winVars, calc>>

NextFin ==
  \/ \E p \in Players, connected \in BOOLEAN : FinStart(p, connected) /\ UNCHANGED finFrame
  \/ FinGetAccount /\ UNCHANGED finFrame
  \/ FinSubmitMove /\ UNCHANGED finFrame
  \/ FinReveal /\ UNCHANGED finFrame
  \/ FinStateCheck /\ UNCHANGED finFrame
  \/ FinAbandon /\ UNCHANGED finFrame
  \/ FinFinalizeAbandoned /\ UNCHANGED finFrame
  \/ FinFinalize /\ UNCHANGED finFrame
  \/ ServiceSetWinnerLands /\ UNCHANGED finFrame
  \/ ServiceFinalizeLands /\ UNCHANGED finFrame

\* ================================================================
\* The client's session state machine (use-game.ts) and the coordinator.
\* ================================================================
\* Number of game ids the client and its opponent can draw.
MaxGames == 2
\* Capacity of each event queue between the client and the coordinator.
MaxQueue == 2
\* Number of countdown intervals that can be running at once.
MaxCountdowns == 1
\* Number of client requests the coordinator has not handled yet.
MaxRequests == 1
\* Number of stake transactions the client's handlers can be awaiting at once.
MaxStakeOps == 1
\* Number of messages the transport delivers twice.
MaxDuplicates == 1

GameIds == 1..MaxGames
Currencies == {"points", "sol"}

\* use-game.ts:72..85 and the reset in leaveGame / resetGameState.
LobbyState == [gameId |-> 0, gameType |-> "private", currency |-> "points",
               gameStatus |-> "lobby", hasP2 |-> FALSE,
               currentRound |-> 1, wins |-> [p \in Players |-> 0],
               moves |-> [p \in Players |-> "none"], ready |-> [p \in Players |-> FALSE],
               winner |-> "none"]

\* ---- the coordinator (spec.md 4.1: createSession, joinSession, onStakeRequired,
\* ---- leaveSession); its code is not part of the sources.
NoSession == [state |-> "none", gameType |-> "private", currency |-> "points",
              me |-> "none", hasP2 |-> FALSE, ackP1 |-> FALSE, ackP2 |-> FALSE]

NewSession(gameType, currency, me, hasP2) ==
  [state |-> "waiting", gameType |-> gameType, currency |-> currency,
   me |-> me, hasP2 |-> hasP2, ackP1 |-> FALSE, ackP2 |-> FALSE]

\* An event for the client carrying the session's gameState as the coordinator holds it.
\* Before the first round it shows round 1, no wins and no moves.
Event(type, g, s) ==
  [type |-> type, game |-> g, gameType |-> s.gameType, currency |-> s.currency,
   gameStatus |-> s.state, role |-> s.me, hasP2 |-> s.hasP2,
   round |-> 1, wins |-> [p \in Players |-> 0], moves |-> [p \in Players |-> "none"],
   ready |-> [p \in Players |-> FALSE],
   player |-> "none", move |-> "none", winner |-> "none"]

\* A request of the client. submit_move carries gameId, playerId and move
\* (use-game.ts:1071-1075) and no round number; madeIn remembers, for the record only,
\* the round the user was playing when the move was made.
Request(type, g, gameType, currency) ==
  [type |-> type, game |-> g, gameType |-> gameType, currency |-> currency,
   player |-> "none", move |-> "none", madeIn |-> 0]

\* joinSession succeeded: a ledger-stake session stays waiting and both players are
\* asked to stake; any other session starts playing.
SessionFilled(s, me) ==
  [s EXCEPT !.hasP2 = TRUE, !.me = me,
            !.state = IF s.currency = "sol" THEN "waiting" ELSE "playing"]

\* (variant) acknowledgments are counted: the first fills the creator's slot, the
\* next one the joiner's, whoever sent them.
RecordAck_Counting(s, slot) ==
  LET t == IF ~s.ackP1 THEN [s EXCEPT !.ackP1 = TRUE] ELSE [s EXCEPT !.ackP2 = TRUE]
  IN  IF t.ackP1 /\ t.ackP2 THEN [t EXCEPT !.state = "playing"] ELSE t

\* onStakeRequired: record one player's acknowledgment; playing once both are recorded.
RecordAck(s, slot) ==
  LET t == IF slot = "p1" THEN [s EXCEPT !.ackP1 = TRUE] ELSE [s EXCEPT !.ackP2 = TRUE]
  IN  IF t.ackP1 /\ t.ackP2 THEN [t EXCEPT !.state = "playing"] ELSE t

AckAccepted(s) == s.state = "waiting" /\ s.hasP2 /\ s.currency = "sol"

\* The events that follow a recorded acknowledgment.
AfterAck(g, t) == IF t.state = "playing" THEN <<Event("game_started", g, t)>> ELSE <<>>

\* The events that follow a join, for the client in slot `me`.
AfterJoin(first, g, t) ==
  <<Event(first, g, t),
    IF t.currency = "sol" THEN Event("game_started_pre_tx", g, t)
                          ELSE Event("game_started", g, t)>>

\* The events that follow a random match, for the client in slot `me`.
AfterMatch(g, t, me) ==
  <<Event("match_found", g, t),
    IF t.currency = "sol"
      THEN Event(IF me = "p1" THEN "create_onchain_game" ELSE "join_onchain_game", g, t)
      ELSE Event("game_started", g, t)>>

SrvCreateGame ==
  /\ up # <<>> /\ Head(up).type = "create_game"
  /\ Len(down) < MaxQueue
  /\ LET m == Head(up) IN
       IF sessions[m.game].state = "none"
         THEN LET t == NewSession(m.gameType, m.currency, "p1", FALSE) IN
              /\ sessions' = [sessions EXCEPT ![m.game] = t]
              /\ down' = Append(down, Event("game_created", m.game, t))
         ELSE UNCHANGED <<sessions, down>>
  /\ up' = Tail(up)
  /\ UNCHANGED <<clientState, srvAckLog>>

SrvJoinGame ==
  /\ up # <<>> /\ Head(up).type = "join_game"
  /\ Len(down) + 2 <= MaxQueue
  /\ LET m == Head(up)
         s == sessions[m.game] IN
       IF s.state = "waiting" /\ ~s.hasP2 /\ s.me = "none"
         THEN LET t == SessionFilled(s, "p2") IN
              /\ sessions' = [sessions EXCEPT ![m.game] = t]
              /\ down' = down \o AfterJoin("game_joined", m.game, t)
         ELSE UNCHANGED <<sessions, down>>
  /\ up' = Tail(up)
  /\ UNCHANGED <<clientState, srvAckLog>>

SrvFindMatch ==
  /\ up # <<>> /\ Head(up).type = "find_random_match"
  /\ Len(down) + 2 <= MaxQueue
  /\ LET m == Head(up) IN
       \/ \E g \in GameIds, me \in Players :
            /\ sessions[g].state = "none"
            /\ LET t == SessionFilled(NewSession("public", m.currency, me, TRUE), me) IN
                 /\ sessions' = [sessions EXCEPT ![g] = t]
                 /\ down' = down \o AfterMatch(g, t, me)
       \/ /\ \A g \in GameIds : sessions[g].state # "none"
          /\ UNCHANGED <<sessions, down>>
  /\ up' = Tail(up)
  /\ UNCHANGED <<clientState, srvAckLog>>

\* The slot an acknowledgment stands for: the creator reports onchain_game_created,
\* the joiner onchain_game_joined.
AckSlot(type) == IF type = "onchain_game_created" THEN "p1" ELSE "p2"

SlotAcked(s, slot) == IF slot = "p1" THEN s.ackP1 ELSE s.ackP2

\* An acknowledgment for session g reaches the coordinator, by either channel.
ReceiveAck(g, slot) ==
  LET s == sessions[g] IN
  IF AckAccepted(s)
    THEN LET t == RecordAck(s, slot) IN
         /\ sessions' = [sessions EXCEPT ![g] = t]
         /\ down' = down \o AfterAck(g, t)
         /\ srvAckLog' = srvAckLog \cup {[game |-> g, slot |-> slot, dup |-> SlotAcked(s, slot)]}
    ELSE UNCHANGED <<sessions, down, srvAckLog>>

SrvAck ==
  /\ up # <<>> /\ Head(up).type \in {"onchain_game_created", "onchain_game_joined"}
  /\ Len(down) < MaxQueue
  /\ ReceiveAck(Head(up).game, AckSlot(Head(up).type))
  /\ up' = Tail(up)
  /\ UNCHANGED clientState

SrvLeaveGame ==
  /\ up # <<>> /\ Head(up).type = "leave_game"
  /\ LET m == Head(up)
         s == sessions[m.game] IN
       sessions' = IF s.me # "none" /\ s.state \in {"waiting", "playing"}
                     THEN [sessions EXCEPT ![m.game].state = "ended"]
                     ELSE sessions
  /\ up' = Tail(up)
  /\ UNCHANGED <<clientState, down, srvAckLog>>

\* ---- the opponent, acting on the coordinator through their own client
OppCreatesGame(g, currency) ==
  /\ sessions[g].state = "none"
  /\ sessions' = [sessions EXCEPT ![g] = NewSession("private", currency, "none", FALSE)]
  /\ UNCHANGED <<clientState, down, up, srvAckLog>>

OppJoinsGame(g) ==
  /\ sessions[g].state = "waiting" /\ sessions[g].me = "p1" /\ ~sessions[g].hasP2
  /\ Len(down) + 2 <= MaxQueue
  /\ LET t == SessionFilled(sessions[g], "p1") IN
       /\ sessions' = [sessions EXCEPT ![g] = t]
       /\ down' = down \o AfterJoin("player_joined", g, t)
  /\ UNCHANGED <<clientState, up, srvAckLog>>

OppAck(g) ==
  /\ AckAccepted(sessions[g]) /\ sessions[g].me \in Players
  /\ Len(down) < MaxQueue
  /\ LET slot == IF sessions[g].me = "p1" THEN "p2" ELSE "p1" IN
       /\ ~SlotAcked(sessions[g], slot)
       /\ ReceiveAck(g, slot)
  /\ UNCHANGED <<clientState, up>>

\* ---- the client (use-game.ts)
\* What only the stake handlers write.
stakeHist == <<myStake, ackLog, failLog, onErrors>>

Emit(m) == up' = Append(up, m)

\* The user starts a game from the lobby screen, and not while an earlier request of
\* theirs is still unanswered.
Responses == {"game_created", "game_joined", "match_found"}

LobbyIdle ==
  /\ ~isInGame /\ gameState.gameId = 0
  /\ up = <<>>
  /\ \A k \in 1..Len(down) : down[k].type \notin Responses

\* (variant) createGame stakes at once for a private SOL game, before anyone joined.
createGame_StakesFirst(g, gameType, currency) ==
  /\ LobbyIdle
  /\ Emit(Request("create_game", g, gameType, currency))
  /\ stakeOps' = IF currency = "sol" /\ Cardinality(stakeOps) < MaxStakeOps
                   THEN stakeOps \cup {[game |-> g, kind |-> "create", via |-> "direct",
                                        phase |-> "staking", ackGame |-> 0,
                                        afterLeave |-> FALSE,
                                        p2Joined |-> sessions[g].hasP2]}
                   ELSE stakeOps
  /\ UNCHANGED <<gameState, isInGame, countdowns, stakeHist, leftLog, down, sessions,
                 srvAckLog>>

\* createGame: the game id is drawn at random; the request goes to the coordinator.
createGame(g, gameType, currency) ==
  /\ LobbyIdle
  /\ Emit(Request("create_game", g, gameType, currency))
  /\ UNCHANGED <<gameState, isInGame, countdowns, stakeOps, stakeHist, leftLog, down, sessions,
                 srvAckLog>>

\* joinGame(gameId): the game's details are fetched first; an unknown game is an error.
joinGame(g) ==
  /\ LobbyIdle
  /\ IF sessions[g].state = "none"
       THEN UNCHANGED up
       ELSE Emit(Request("join_game", g, sessions[g].gameType, sessions[g].currency))
  /\ UNCHANGED <<gameState, isInGame, countdowns, stakeOps, stakeHist, leftLog, down, sessions,
                 srvAckLog>>

\* joinGame(): no game id, a random match is requested.
findRandomMatch(currency) ==
  /\ LobbyIdle
  /\ Emit(Request("find_random_match", 0, "public", currency))
  /\ UNCHANGED <<gameState, isInGame, countdowns, stakeOps, stakeHist, leftLog, down, sessions,
                 srvAckLog>>

\* leaveGame emits leave_game and resets the local state; it calls no cancelGame.
LeaveIssuesRefund == FALSE

\* Games the user has left while the client showed them waiting.
LeftWaiting == {l.game : l \in {x \in leftLog : x.status = "waiting"}}

\* leaveGame as a function of what it reads: the session state, the wallet's publicKey
\* and the socket. socket.emit is always a function, so only a missing publicKey or a
\* null gameId takes the early return, which resets nothing; emit itself drops the event
\* when the socket is not connected, and the reset follows either way.
AfterLeaveGame(gs, inGame, hasPublicKey, socketConnected) ==
  IF ~hasPublicKey \/ gs.gameId = 0
    THEN [state |-> gs, isInGame |-> inGame, sent |-> FALSE]
    ELSE [state |-> LobbyState, isInGame |-> FALSE, sent |-> socketConnected]

\* The user leaves with the wallet and the socket connected.
leaveGame ==
  /\ gameState.gameId # 0
  /\ Len(up) < MaxRequests
  /\ Emit(Request("leave_game", gameState.gameId, gameState.gameType, gameState.currency))
  /\ gameState' = AfterLeaveGame(gameState, isInGame, TRUE, TRUE).state
  /\ isInGame' = AfterLeaveGame(gameState, isInGame, TRUE, TRUE).isInGame
  /\ leftLog' = leftLog \cup {[game |-> gameState.gameId, status |-> gameState.gameStatus,
                                gameType |-> gameState.gameType,
                                creator |-> sessions[gameState.gameId].me = "p1",
                                staked |-> myStake[gameState.gameId] = "confirmed",
                                refundIssued |-> LeaveIssuesRefund]}
  /\ UNCHANGED <<countdowns, stakeOps, stakeHist, down, sessions, srvAckLog>>

handleGameCreated(data) ==
  /\ gameState' = [gameState EXCEPT !.gameId = data.game, !.gameType = data.gameType,
                                    !.currency = data.currency, !.gameStatus = "waiting"]
  /\ isInGame' = TRUE
  /\ UNCHANGED <<countdowns, stakeOps, stakeHist, up>>

handlePlayerJoined(data) ==
  /\ gameState' =
       [gameState EXCEPT
          !.hasP2 = data.hasP2,
          !.wins["p2"] = IF data.hasP2 THEN data.wins["p2"] ELSE @,
          !.moves["p2"] = "none",
          !.ready["p2"] = FALSE,
          !.currentRound = data.round,
          !.gameStatus =
             IF data.role = "p2" /\ gameState.currency = "sol" /\ gameState.gameType = "private"
               THEN "waiting"
               ELSE IF data.gameStatus = "playing" THEN "playing" ELSE gameState.gameStatus]
  /\ UNCHANGED <<isInGame, countdowns, stakeOps, stakeHist, up>>

handleGameJoined(data) ==
  /\ gameState' =
       [gameId |-> data.game, gameType |-> data.gameType, currency |-> data.currency,
        hasP2 |-> data.hasP2,
        currentRound |-> data.round, wins |-> data.wins, moves |-> data.moves,
        ready |-> data.ready,
        winner |-> data.winner,
        gameStatus |->
          IF data.role = "p2" /\ data.currency = "sol" /\ data.gameType = "private"
            THEN "waiting"
            ELSE IF data.gameStatus = "playing" THEN "playing" ELSE "waiting"]
  /\ isInGame' = TRUE
  /\ UNCHANGED <<countdowns, stakeOps, stakeHist, up>>

handleMatchFound(data) ==
  /\ gameState' =
       [gameId |-> data.game, gameType |-> data.gameType, currency |-> data.currency,
        hasP2 |-> data.hasP2,
        currentRound |-> data.round, wins |-> data.wins, moves |-> data.moves,
        ready |-> [p \in Players |-> data.moves[p] # "none"],
        winner |-> data.winner,
        gameStatus |-> IF data.gameStatus = "playing" THEN "playing" ELSE "waiting"]
  /\ isInGame' = TRUE
  /\ UNCHANGED <<countdowns, stakeOps, stakeHist, up>>

\* handleGameStarted starts a countdown interval; its last tick is CountdownEnds.
handleGameStarted(data) ==
  /\ countdowns < MaxCountdowns
  /\ countdowns' = countdowns + 1
  /\ UNCHANGED <<gameState, isInGame, stakeOps, stakeHist, up>>

\* The last tick of a countdown interval (use-game.ts:271..288).
CountdownEnds ==
  /\ countdowns > 0
  /\ countdowns' = countdowns - 1
  /\ gameState' = [gameState EXCEPT !.gameStatus = "playing"]
  /\ UNCHANGED <<isInGame, stakeOps, stakeHist, leftLog, down, up, sessions, srvAckLog>>

\* A handler starts awaiting anchorCreateGame / anchorJoinGame for the game of the event.
StakeOp(data, kind, via) ==
  [game |-> data.game, kind |-> kind, via |-> via, phase |-> "staking", ackGame |-> 0,
   afterLeave |-> data.game \in LeftWaiting, p2Joined |-> sessions[data.game].hasP2]

\* handleGameStartedPreTx up to its await of anchorCreateGame / anchorJoinGame.
handleGameStartedPreTx(data) ==
  LET staking == data.currency = "sol" /\ data.gameType = "private" IN
  /\ staking => Cardinality(stakeOps) < MaxStakeOps
  /\ gameState' = [gameState EXCEPT !.gameId = data.game, !.gameType = data.gameType,
                                    !.currency = data.currency,
                                    !.gameStatus = IF staking THEN "waiting" ELSE @]
  /\ stakeOps' = IF staking
                   THEN stakeOps \cup {StakeOp(data, IF data.role = "p1" THEN "create" ELSE "join",
                                               "pre_tx")}
                   ELSE stakeOps
  /\ UNCHANGED <<isInGame, countdowns, stakeHist, up>>

\* handleCreateOnchainGame / handleJoinOnchainGame up to their await.
handleOnchainGame(data, kind) ==
  /\ data.currency = "sol" => Cardinality(stakeOps) < MaxStakeOps
  /\ stakeOps' = IF data.currency = "sol"
                   THEN stakeOps \cup {StakeOp(data, kind, "direct")}
                   ELSE stakeOps
  /\ UNCHANGED <<gameState, isInGame, countdowns, stakeHist, up>>

\* How anchorCreateGame / anchorJoinGame can end (use-anchor-program.ts:558-712, 715-896):
\*   notConnected : the wallet guard returns false, nothing was submitted;
\*   confirmed    : createGame sent the transaction and saw it confirmed, returns true;
\*   sent         : joinGame sent the transaction and returns true without confirming;
\*   failed       : sending (or, for createGame, confirming) threw.
StakeOutcomes(kind) ==
  IF kind = "create" THEN {"notConnected", "confirmed", "failed"}
                     ELSE {"notConnected", "sent", "failed"}

TxAfter(outcome) ==
  CASE outcome = "confirmed" -> "confirmed"
    [] outcome = "sent"      -> "pending"
    [] OTHER                 -> "none"

\* use-game.ts:485-488 and 513-516, 534-537: the catch reports the error and does
\* nothing else to the session state.
AfterStakeFailure(gs) == gs

\* The handler goes on to the acknowledgment whenever the awaited call did not throw.
AckFollows(outcome) == outcome # "failed"

AckType(kind) == IF kind = "create" THEN "onchain_game_created" ELSE "onchain_game_joined"

\* The stake transactions this client has submitted for game g so far, as far as the
\* handlers that went on to acknowledge them tell.
StakesSubmitted(g) == Cardinality({a \in ackLog : a.staked = g /\ a.tx # "none"})

\* The awaited anchorCreateGame / anchorJoinGame ends and the handler resumes. The
\* ledger creates a game's escrow account once: a second createGame for a game whose
\* creation is confirmed cannot be confirmed as well.
StakeReturns(op, outcome) ==
  /\ op \in stakeOps /\ op.phase = "staking"
  /\ outcome \in StakeOutcomes(op.kind)
  /\ outcome = "confirmed" => myStake[op.game] # "confirmed"
  /\ myStake' = [myStake EXCEPT ![op.game] = IF TxAfter(outcome) = "none" THEN @
                                                                         ELSE TxAfter(outcome)]
  /\ IF AckFollows(outcome)
       THEN LET actualGameId == IF op.via = "pre_tx" /\ gameState.gameId # 0
                                  THEN gameState.gameId ELSE op.game IN
            /\ ackLog' = ackLog \cup {[game |-> actualGameId, kind |-> op.kind, via |-> op.via,
                                        staked |-> op.game,
                                        tx |-> TxAfter(outcome),
                                        earlier |-> StakesSubmitted(op.game),
                                        afterLeave |-> actualGameId \in LeftWaiting]}
            /\ UNCHANGED <<failLog, onErrors>>
            /\ IF op.via = "pre_tx"
                 THEN \* the HTTP request is sent and awaited
                      /\ gameState' = [gameState EXCEPT !.gameStatus = "waiting"]
                      /\ stakeOps' = (stakeOps \ {op}) \cup
                                       {[op EXCEPT !.phase = "acking", !.ackGame = actualGameId]}
                      /\ UNCHANGED up
                 ELSE /\ Len(up) < MaxRequests
                      /\ Emit(Request(AckType(op.kind), actualGameId, "private", "sol"))
                      /\ stakeOps' = stakeOps \ {op}
                      /\ UNCHANGED gameState
       ELSE /\ gameState' = AfterStakeFailure(gameState)
            /\ UNCHANGED <<ackLog, up>>
            /\ onErrors' = onErrors \cup {"stake"}
            /\ failLog' = failLog \cup {[game |-> op.game,
                                          stateKept |-> gameState' = gameState,
                                          acksKept |-> ackLog' = ackLog]}
            /\ stakeOps' = stakeOps \ {op}
  /\ UNCHANGED <<isInGame, countdowns, leftLog, down, sessions, srvAckLog>>

\* use-game.ts:392-418, 444-470: the HTTP request ends (the coordinator has handled
\* it, or it failed), then the same acknowledgment is emitted on the socket.
HttpAckReturns(op, httpOk) ==
  /\ op \in stakeOps /\ op.phase = "acking"
  /\ Len(up) < MaxRequests /\ Len(down) < MaxQueue
  /\ IF httpOk THEN ReceiveAck(op.ackGame, AckSlot(AckType(op.kind)))
               ELSE UNCHANGED <<sessions, down, srvAckLog>>
  /\ Emit(Request(AckType(op.kind), op.ackGame, "private", "sol"))
  /\ stakeOps' = stakeOps \ {op}
  /\ UNCHANGED <<gameState, isInGame, countdowns, stakeHist, leftLog>>

\* A stake transaction that was sent without waiting is confirmed, or fails, on-chain.
StakeTxSettles(g, ok) ==
  /\ myStake[g] = "pending"
  /\ myStake' = [myStake EXCEPT ![g] = IF ok THEN "confirmed" ELSE "failed"]
  /\ UNCHANGED <<gameState, isInGame, countdowns, stakeOps, ackLog, failLog, onErrors,
                 leftLog, down, up, sessions, srvAckLog>>

\* The socket delivers the next event to its registered handler (use-game.ts:933..951).
Deliver ==
  /\ down # <<>>
  /\ LET data == Head(down) IN
       CASE data.type = "game_created"        -> handleGameCreated(data)
         [] data.type = "player_joined"       -> handlePlayerJoined(data)
         [] data.type = "game_joined"         -> handleGameJoined(data)
         [] data.type = "match_found"         -> handleMatchFound(data)
         [] data.type = "game_started"        -> handleGameStarted(data)
         [] data.type = "game_started_pre_tx" -> handleGameStartedPreTx(data)
         [] data.type = "create_onchain_game" -> handleOnchainGame(data, "create")
         [] data.type = "join_onchain_game"   -> handleOnchainGame(data, "join")
         [] OTHER                             -> FALSE
  /\ down' = Tail(down)
  /\ UNCHANGED <<sessions, leftLog, srvAckLog>>

\* ---- staking when the transport delivers a stake request twice (spec.md 6:
\* ---- at-least-once delivery)
StakeGame == 1

StakeRequests == {"game_started_pre_tx", "create_onchain_game", "join_onchain_game"}

DuplicateStakeRequest ==
  /\ down # <<>> /\ Len(down) < MaxQueue
  /\ Head(down).type \in StakeRequests
  /\ duplicated < MaxDuplicates
  /\ duplicated' = duplicated + 1
  /\ down' = <<Head(down)>> \o down
  /\ UNCHANGED <<gameState, isInGame, countdowns, stakeOps, stakeHist, leftLog, up, sessions,
                 srvAckLog>>

\* The client has asked to join a private SOL game, or asked for a random SOL match, and
\* the coordinator has just given it its place: the events are on their way.
JoinedSession == SessionFilled(NewSession("private", "sol", "none", FALSE), "p2")

MatchedSession(me) == SessionFilled(NewSession("public", "sol", me, TRUE), me)

StakeStarts ==
  {[session |-> JoinedSession, events |-> AfterJoin("game_joined", StakeGame, JoinedSession)]}
    \cup {[session |-> MatchedSession(me),
            events |-> AfterMatch(StakeGame, MatchedSession(me), me)] : me \in Players}

InitGame ==
  /\ gameState = LobbyState
  /\ isInGame = FALSE
  /\ countdowns = 0
  /\ stakeOps = {}
  /\ down = <<>>
  /\ up = <<>>
  /\ sessions = [g \in GameIds |-> NoSession]
  /\ myStake = [g \in GameIds |-> "none"]
  /\ ackLog = {}
  /\ failLog = {}
  /\ onErrors = {}
  /\ leftLog = {}
  /\ srvAckLog = {}

gameFrame == <<autoVars, finVars, playVars, declineVars, winVars, calc>>

NextGame ==
  \/ \E g \in GameIds, gameType \in {"private"}, currency \in Currencies :
       createGame(g, gameType, currency) /\ UNCHANGED gameFrame
  \/ \E g \in GameIds : joinGame(g) /\ UNCHANGED gameFrame
  \/ \E currency \in Currencies : findRandomMatch(currency) /\ UNCHANGED gameFrame
  \/ leaveGame /\ UNCHANGED gameFrame
  \/ Deliver /\ UNCHANGED gameFrame
  \/ CountdownEnds /\ UNCHANGED gameFrame
  \/ \E op \in stakeOps, outcome \in {"notConnected", "confirmed", "sent", "failed"} :
       StakeReturns(op, outcome) /\ UNCHANGED gameFrame
  \/ \E op \in stakeOps, httpOk \in BOOLEAN : HttpAckReturns(op, httpOk) /\ UNCHANGED gameFrame
  \/ \E g \in GameIds, ok \in BOOLEAN : StakeTxSettles(g, ok) /\ UNCHANGED gameFrame
  \/ SrvCreateGame /\ UNCHANGED gameFrame
  \/ SrvJoinGame /\ UNCHANGED gameFrame
  \/ SrvFindMatch /\ UNCHANGED gameFrame
  \/ SrvAck /\ UNCHANGED gameFrame
  \/ SrvLeaveGame /\ UNCHANGED gameFrame
  \/ \E g \in GameIds, currency \in Currencies : OppCreatesGame(g, currency) /\ UNCHANGED gameFrame
  \/ \E g \in GameIds : OppJoinsGame(g) /\ UNCHANGED gameFrame
  \/ \E g \in GameIds : OppAck(g) /\ UNCHANGED gameFrame

InitStaking ==
  /\ gameState = LobbyState
  /\ isInGame = FALSE
  /\ countdowns = 0
  /\ stakeOps = {}
  /\ up = <<>>
  /\ myStake = [g \in GameIds |-> "none"]
  /\ ackLog = {}
  /\ failLog = {}
  /\ onErrors = {}
  /\ leftLog = {}
  /\ srvAckLog = {}
  /\ \E s \in StakeStarts :
       /\ sessions = [g \in GameIds |-> IF g = StakeGame THEN s.session ELSE NoSession]
       /\ down = s.events

NextStake ==
  \/ Deliver /\ UNCHANGED gameFrame
  \/ DuplicateStakeRequest /\ UNCHANGED <<autoVars, finVars, match, roundTimers, hist, declineVars, winVars, calc>>
  \/ \E op \in stakeOps, outcome \in {"notConnected", "confirmed", "sent", "failed"} :
       StakeReturns(op, outcome) /\ UNCHANGED gameFrame
  \/ \E op \in stakeOps, httpOk \in BOOLEAN : HttpAckReturns(op, httpOk) /\ UNCHANGED gameFrame
  \/ \E g \in GameIds, ok \in BOOLEAN : StakeTxSettles(g, ok) /\ UNCHANGED gameFrame
  \/ SrvAck /\ UNCHANGED gameFrame
  \/ \E g \in GameIds : OppAck(g) /\ UNCHANGED gameFrame
  \/ CountdownEnds /\ UNCHANGED gameFrame

\* ---- a declined invitation (use-game.ts:701-760)
\* The invited player declines: the coordinator tells the creator of the private
\* session that is waiting for its second player (spec.md 4.1, 7: PeerFailure).
OppDeclines(g) ==
  /\ sessions[g].state = "waiting" /\ sessions[g].gameType = "private"
  /\ sessions[g].me = "p1" /\ ~sessions[g].hasP2
  /\ Len(down) < MaxQueue
  /\ down' = Append(down, Event("player_declined_invitation", g, sessions[g]))
  /\ UNCHANGED <<clientState, sessions, up, srvAckLog>>

\* The handler's condition, read from gameStateRef when the event arrives: a private
\* game, created by this client (player1.id is the client's id exactly when the client
\* created the session it is in), still waiting, and the event names this game.
DeclineApplies(gs, data) ==
  /\ gs.gameType = "private"
  /\ gs.gameId # 0 /\ sessions[gs.gameId].me = "p1"
  /\ gs.gameStatus = "waiting"
  /\ data.game = gs.gameId

\* The message is reported at once and the reset is left to a 3-second timeout.
handlePlayerDeclinedInvitation(data) ==
  /\ IF DeclineApplies(gameState, data)
       THEN /\ onErrors' = onErrors \cup {"declined"}
            /\ declineTimers' = declineTimers \cup {data.game}
       ELSE UNCHANGED <<onErrors, declineTimers>>
  /\ UNCHANGED <<gameState, isInGame, countdowns, stakeOps, myStake, ackLog, failLog, leftLog>>

DeliverDeclined ==
  /\ down # <<>> /\ Head(down).type = "player_declined_invitation"
  /\ handlePlayerDeclinedInvitation(Head(down))
  /\ down' = Tail(down)
  /\ UNCHANGED <<up, sessions, srvAckLog>>

\* The timeout's callback: it reads nothing and sets the lobby state.
DeclineTimer(g) ==
  /\ g \in declineTimers
  /\ declineTimers' = declineTimers \ {g}
  /\ gameState' = LobbyState
  /\ isInGame' = FALSE
  /\ UNCHANGED <<countdowns, stakeOps, stakeHist, leftLog, down, up, sessions, srvAckLog>>

declineFrame == <<autoVars, finVars, playVars, winVars, calc>>

NextDecline ==
  \/ \E g \in GameIds : createGame(g, "private", "points") /\ UNCHANGED gameFrame
  \/ \E g \in GameIds : joinGame(g) /\ UNCHANGED gameFrame
  \/ leaveGame /\ UNCHANGED gameFrame
  \/ Deliver /\ UNCHANGED gameFrame
  \/ DeliverDeclined /\ UNCHANGED declineFrame
  \/ \E g \in GameIds : DeclineTimer(g) /\ UNCHANGED declineFrame
  \/ CountdownEnds /\ UNCHANGED gameFrame
  \/ SrvCreateGame /\ UNCHANGED gameFrame
  \/ SrvJoinGame /\ UNCHANGED gameFrame
  \/ SrvLeaveGame /\ UNCHANGED gameFrame
  \/ \E g \in GameIds : OppCreatesGame(g, "points") /\ UNCHANGED gameFrame
  \/ \E g \in GameIds : OppDeclines(g) /\ UNCHANGED gameFrame

\* ================================================================
\* The winnings list (use-winnings.ts). Offsets are counted in pages of `limit` entries.
MaxFetches == 3

\* Pages the backend holds.
TotalPages == 3

\* React renders again: the callbacks are rebuilt over the current state.
Render ==
  /\ useWinnings.rendered # [loading |-> useWinnings.state.loading,
                              hasMore |-> useWinnings.state.hasMore]
  /\ useWinnings' = [useWinnings EXCEPT
                       !.rendered = [loading |-> useWinnings.state.loading,
                                     hasMore |-> useWinnings.state.hasMore]]

\* fetchWinnings(reset) up to its await, on the hook as w: the guard reads state.loading
\* of the render the callback was built in; past it, loading is set and a request for
\* the offset read from offsetRef is sent.
fetchWinnings(w, reset) ==
  IF w.rendered.loading
    THEN w
    ELSE [w EXCEPT
            !.state.loading = TRUE, !.state.error = FALSE,
            !.inflight = @ \cup {[id |-> w.requests + 1,
                                   offset |-> IF reset THEN 0 ELSE w.offsetRef,
                                   reset |-> reset]},
            !.requests = @ + 1]

refreshWinnings ==
  /\ useWinnings.requests < MaxFetches
  /\ useWinnings' = fetchWinnings([useWinnings EXCEPT !.offsetRef = 0], TRUE)

loadMore ==
  /\ useWinnings.requests < MaxFetches
  /\ useWinnings' = IF ~useWinnings.rendered.loading /\ useWinnings.rendered.hasMore
                      THEN fetchWinnings(useWinnings, FALSE)
                      ELSE useWinnings

\* The rest of fetchWinnings: the response of request f has arrived, with a page or
\* with a failure.
FetchReturns(f, ok) ==
  /\ f \in useWinnings.inflight
  /\ useWinnings' =
       IF ok
         THEN [useWinnings EXCEPT
                 !.inflight = @ \ {f},
                 !.state.winnings = IF f.reset THEN <<f.offset>> ELSE Append(@, f.offset),
                 !.state.loading = FALSE,
                 !.state.hasMore = f.offset + 1 < TotalPages,
                 !.offsetRef = IF f.reset THEN 1 ELSE @ + 1]
         ELSE [useWinnings EXCEPT
                 !.inflight = @ \ {f},
                 !.state.loading = FALSE,
                 !.state.error = TRUE]

winFrame == <<autoVars, finVars, gameVars, playVars, declineVars, calc>>

NextWin ==
  \/ Render /\ UNCHANGED winFrame
  \/ refreshWinnings /\ UNCHANGED winFrame
  \/ loadMore /\ UNCHANGED winFrame
  \/ \E f \in useWinnings.inflight, ok \in BOOLEAN : FetchReturns(f, ok) /\ UNCHANGED winFrame

\* ================================================================
\* The match in progress (use-game.ts:541-699, 762-815, 904-930, 1060-1081).
\* ================================================================
\* Rounds won that end the match (spec.md 3: the threshold is fixed at 3).
WinsToWin == 3
\* Number of rounds the coordinator starts.
MaxRounds == 3
\* Capacity of each event queue while a match is played.
MaxPlayQueue == 3

Moves == {"rock", "paper"}

\* The match is played in one session; the client is its creator.
PlayGame == 1
\* use-game.ts:664, 907  publicKey?.toString().slice(0, 8)
myPlayerId == "p1"
opponentId == "p2"

\* ---- the coordinator (spec.md 4.1: submitMoveCommitment, resolveRound,
\* ---- leaveSession) and its Round Resolution Engine
Beats(a, b) == <<a, b>> \in {<<"rock", "scissors">>, <<"scissors", "paper">>, <<"paper", "rock">>}

RoundWinner(mv) ==
  IF Beats(mv["p1"], mv["p2"]) THEN "p1"
  ELSE IF Beats(mv["p2"], mv["p1"]) THEN "p2" ELSE "draw"

NoMatch == [status |-> "none", round |-> 1, wins |-> [p \in Players |-> 0],
            moves |-> [p \in Players |-> "none"], winner |-> "none", reason |-> "none"]

NewMatch == [NoMatch EXCEPT !.status = "playing"]

\* An event of the match carrying the match as the coordinator holds it.
PlayEvent(type, m, player, move) ==
  [Event(type, PlayGame, sessions[PlayGame]) EXCEPT
     !.gameStatus = m.status, !.round = m.round, !.wins = m.wins, !.moves = m.moves,
     !.ready = [p \in Players |-> m.moves[p] # "none"],
     !.player = player, !.move = move, !.winner = m.winner]

\* submitMoveCommitment: accepted only in playing, once per player and round. The
\* request names no round, so this is all the coordinator can tell.
MoveAccepted(m, player) == m.status = "playing" /\ m.moves[player] = "none"

\* resolveRound: scores, then round-result, or game-over at the threshold.
ResolveRound(m) ==
  LET w == RoundWinner(m.moves)
      wins == IF w = "draw" THEN m.wins ELSE [m.wins EXCEPT ![w] = @ + 1]
  IN  IF w # "draw" /\ wins[w] >= WinsToWin
        THEN [m EXCEPT !.wins = wins, !.status = "game-over", !.winner = w, !.reason = "win"]
        ELSE [m EXCEPT !.wins = wins, !.status = "round-result"]

AfterMove(m, player, move) ==
  LET t == [m EXCEPT !.moves[player] = move] IN
  IF \A p \in Players : t.moves[p] # "none" THEN ResolveRound(t) ELSE t

MoveEvents(m, t, player, move) ==
  <<PlayEvent("move_submitted", [m EXCEPT !.moves[player] = move], player, move)>> \o
  (IF t.status = "playing" THEN <<>>
   ELSE <<PlayEvent("round_completed", t, "none", "none")>> \o
        (IF t.status = "game-over" THEN <<PlayEvent("game_finished", t, "none", "none")>>
                                   ELSE <<>>))

\* The round a move was made for is over when the move reaches the coordinator.
RoundResolved(m, madeIn) == madeIn < m.round \/ m.status # "playing"

\* A submit_move reaches the coordinator.
ReceiveMove(player, move, madeIn) ==
  /\ IF MoveAccepted(match, player)
       THEN LET t == AfterMove(match, player, move)
                ev == MoveEvents(match, t, player, move) IN
            /\ Len(down) + Len(ev) <= MaxPlayQueue
            /\ match' = t
            /\ down' = down \o ev
       ELSE UNCHANGED <<match, down>>
  /\ hist' = IF RoundResolved(match, madeIn)
               THEN [hist EXCEPT !.lateSubmits = @ \cup
                       {[player |-> player,
                         kept |-> /\ match'.wins = match.wins
                                  /\ match'.round = match.round
                                  /\ match'.status = match.status]}]
               ELSE hist

SrvSubmitMove ==
  /\ up # <<>> /\ Head(up).type = "submit_move"
  /\ ReceiveMove(Head(up).player, Head(up).move, Head(up).madeIn)
  /\ up' = Tail(up)
  /\ UNCHANGED <<gameState, isInGame, countdowns, leftLog, roundTimers, duplicated>>

\* The scheduled transition from round-result back to playing.
StartNextRound(m) ==
  [m EXCEPT !.status = "playing", !.round = @ + 1, !.moves = [p \in Players |-> "none"]]

SrvNextRound ==
  /\ match.status = "round-result" /\ match.round < MaxRounds
  /\ Len(down) < MaxPlayQueue
  /\ match' = StartNextRound(match)
  /\ down' = Append(down, PlayEvent("next_round", match', "none", "none"))
  /\ UNCHANGED <<gameState, isInGame, countdowns, leftLog, up, roundTimers, duplicated, hist>>

\* leaveSession in playing: the one who leaves forfeits.
Forfeited(m, winner) ==
  [m EXCEPT !.status = "game-over", !.winner = winner, !.reason = "opponent_quit"]

SrvLeaveMatch ==
  /\ up # <<>> /\ Head(up).type = "leave_game"
  /\ match' = IF match.status = "playing" THEN Forfeited(match, opponentId) ELSE match
  /\ up' = Tail(up)
  /\ UNCHANGED <<gameState, isInGame, countdowns, leftLog, down, roundTimers, duplicated, hist>>

\* ---- the opponent
OppSubmitsMove(move) ==
  /\ MoveAccepted(match, opponentId)
  /\ ReceiveMove(opponentId, move, match.round)
  /\ UNCHANGED <<gameState, isInGame, countdowns, leftLog, up, roundTimers, duplicated>>

\* The opponent leaves (player_left) or loses the connection (player_disconnected)
\* while the match is being played.
OppLeaves(type) ==
  /\ match.status = "playing"
  /\ Len(down) < MaxPlayQueue
  /\ match' = Forfeited(match, myPlayerId)
  /\ down' = Append(down, PlayEvent(type, match', opponentId, "none"))
  /\ UNCHANGED <<gameState, isInGame, countdowns, leftLog, up, roundTimers, duplicated, hist>>

\* ---- the transport: a message is delivered a second time
Repeatable == {"game_started", "player_joined", "move_submitted", "round_completed",
               "next_round"}

DuplicateDown ==
  /\ down # <<>> /\ Len(down) < MaxPlayQueue
  /\ Head(down).type \in Repeatable
  /\ duplicated < MaxDuplicates
  /\ duplicated' = duplicated + 1
  /\ down' = <<Head(down)>> \o down
  /\ UNCHANGED <<gameState, isInGame, countdowns, leftLog, up, match, roundTimers, hist>>

DuplicateUp ==
  /\ up # <<>> /\ Head(up).type = "submit_move" /\ Len(up) <= MaxRequests
  /\ duplicated < MaxDuplicates
  /\ duplicated' = duplicated + 1
  /\ up' = <<Head(up)>> \o up
  /\ UNCHANGED <<gameState, isInGame, countdowns, leftLog, down, match, roundTimers, hist>>

\* ---- the client (use-game.ts)
\* makeMove: the user chooses while the round is being played, once per round shown.
makeMove(move) ==
  /\ gameState.gameId # 0
  /\ gameState.gameStatus = "playing" /\ gameState.moves[myPlayerId] = "none"
  /\ gameState.currentRound \notin hist.movedIn
  /\ Len(up) < MaxRequests
  /\ Emit([Request("submit_move", gameState.gameId, gameState.gameType, gameState.currency)
             EXCEPT !.player = myPlayerId, !.move = move, !.madeIn = gameState.currentRound])
  /\ hist' = [hist EXCEPT !.movedIn = @ \cup {gameState.currentRound}]
  /\ UNCHANGED <<gameState, isInGame, countdowns, leftLog, down, match, roundTimers,
                 duplicated>>

\* Whether the client's gameState holds the player an event names.
HoldsPlayer(gs, player) == gs.gameId # 0 /\ (player = "p2" => gs.hasP2)

AfterMoveSubmitted(gs, data) ==
  IF HoldsPlayer(gs, data.player)
    THEN [gs EXCEPT !.moves[data.player] = data.move, !.ready[data.player] = TRUE]
    ELSE gs

handleMoveSubmitted(data) ==
  /\ gameState' = AfterMoveSubmitted(gameState, data)
  /\ hist' = IF data.round < gameState.currentRound \/ gameState.gameStatus # "playing"
               THEN [hist EXCEPT !.lateMoves = @ \cup
                       {[moveSet |-> gameState'.moves # gameState.moves,
                         kept |-> /\ gameState'.wins = gameState.wins
                                  /\ gameState'.currentRound = gameState.currentRound
                                  /\ gameState'.gameStatus = gameState.gameStatus]}]
               ELSE hist
  /\ UNCHANGED <<isInGame, countdowns, roundTimers>>

\* (variant) the scores of the event are not taken over.
AfterRoundCompleted_KeepsScores(gs, data) ==
  [gs EXCEPT !.currentRound = data.round, !.gameStatus = "round-result"]

AfterRoundCompleted(gs, data) ==
  [gs EXCEPT
     !.wins = [p \in Players |-> IF p = "p2" /\ ~gs.hasP2 THEN @[p] ELSE data.wins[p]],
     !.moves = [p \in Players |->
                  IF data.moves[p] # "none" /\ (p = "p2" => gs.hasP2)
                    THEN data.moves[p] ELSE @[p]],
     !.ready = [p \in Players |-> IF p = "p2" /\ ~gs.hasP2 THEN @[p] ELSE FALSE],
     !.currentRound = data.round,
     !.gameStatus = "round-result"]

handleRoundCompleted(data) ==
  /\ gameState' = AfterRoundCompleted(gameState, data)
  /\ UNCHANGED <<isInGame, countdowns, roundTimers, hist>>

\* handleNextRound only starts a 3 s timeout; NextRoundTimer is the timeout firing.
handleNextRound(data) ==
  /\ roundTimers' = roundTimers \cup {data.round}
  /\ UNCHANGED <<gameState, isInGame, countdowns, hist>>

\* What the timeout of handleNextRound writes (use-game.ts:629-656).
AfterNextRound(gs, r) ==
  [gs EXCEPT !.currentRound = r, !.gameStatus = "playing",
             !.moves = [p \in Players |-> "none"],
             !.ready = [p \in Players |-> FALSE]]

NextRoundTimer(r) ==
  /\ r \in roundTimers
  /\ roundTimers' = roundTimers \ {r}
  /\ gameState' = AfterNextRound(gameState, r)
  /\ UNCHANGED <<isInGame, countdowns, leftLog, down, up, match, duplicated, hist>>

\* What handlePlayerLeft / handlePlayerDisconnected pass to options.onGameFinished.
PlayerLeftReport ==
  [winner |-> myPlayerId, reason |-> "opponent_quit", quitReason |-> "opponent_left"]

PlayerDisconnectedReport ==
  [winner |-> myPlayerId, reason |-> "opponent_disconnect", quitReason |-> "opponent_disconnected"]

\* The else branch of handlePlayerLeft calls no options.onGameFinished.
NoReport == [winner |-> "none", reason |-> "none", quitReason |-> "none"]

\* (variant) the forfeit ends the match without naming a winner.
WonByForfeit_NoWinner(gs) == [gs EXCEPT !.gameStatus = "game-over"]

\* The forfeit branch of both handlers.
WonByForfeit(gs) == [gs EXCEPT !.gameStatus = "game-over", !.winner = myPlayerId]

AfterPlayerLeft(gs) == IF gs.gameStatus = "playing" THEN WonByForfeit(gs) ELSE LobbyState

AfterPlayerDisconnected(gs, data) ==
  IF data.player # myPlayerId /\ gs.gameStatus = "playing" THEN WonByForfeit(gs) ELSE gs

ForfeitRecord(type, gs, after, report) ==
  [via |-> type, before |-> gs.gameStatus, after |-> after.gameStatus,
   winner |-> after.winner, reason |-> report.reason,
   iMoved |-> gs.moves[myPlayerId] # "none"]

handlePlayerLeft(data) ==
  /\ gameState' = AfterPlayerLeft(gameState)
  /\ isInGame' = IF gameState.gameStatus = "playing" THEN isInGame ELSE FALSE
  /\ hist' = IF gameState.gameStatus = "playing"
               THEN [hist EXCEPT
                       !.finished = @ \cup {PlayerLeftReport},
                       !.forfeits = @ \cup {ForfeitRecord(data.type, gameState, gameState',
                                                           PlayerLeftReport)}]
               ELSE [hist EXCEPT
                       !.forfeits = @ \cup {ForfeitRecord(data.type, gameState, gameState',
                                                           NoReport)}]
  /\ UNCHANGED <<countdowns, roundTimers>>

handlePlayerDisconnected(data) ==
  /\ gameState' = AfterPlayerDisconnected(gameState, data)
  /\ hist' = IF data.player # myPlayerId /\ gameState.gameStatus = "playing"
               THEN [hist EXCEPT
                       !.finished = @ \cup {PlayerDisconnectedReport},
                       !.forfeits = @ \cup {ForfeitRecord(data.type, gameState, gameState',
                                                           PlayerDisconnectedReport)}]
               ELSE hist
  /\ UNCHANGED <<isInGame, countdowns, roundTimers>>

AfterGameFinished(gs, data) == [gs EXCEPT !.gameStatus = "game-over", !.winner = data.winner]

handleGameFinished(data) ==
  /\ gameState' = AfterGameFinished(gameState, data)
  /\ hist' = [hist EXCEPT !.finished = @ \cup
                {[winner |-> data.winner, reason |-> "win", quitReason |-> "none"]}]
  /\ UNCHANGED <<isInGame, countdowns, roundTimers>>

\* The socket delivers the next event of the match to its handler (use-game.ts:933..951).
DeliverPlay ==
  /\ down # <<>>
  /\ LET data == Head(down) IN
       CASE data.type = "player_joined"       ->
              handlePlayerJoined(data) /\ UNCHANGED <<roundTimers, hist>>
         [] data.type = "game_started"        ->
              handleGameStarted(data) /\ UNCHANGED <<roundTimers, hist>>
         [] data.type = "move_submitted"      -> handleMoveSubmitted(data)
         [] data.type = "round_completed"     -> handleRoundCompleted(data)
         [] data.type = "next_round"          -> handleNextRound(data)
         [] data.type = "game_finished"       -> handleGameFinished(data)
         [] data.type = "player_left"         -> handlePlayerLeft(data)
         [] data.type = "player_disconnected" -> handlePlayerDisconnected(data)
  /\ down' = Tail(down)
  /\ UNCHANGED <<leftLog, up, match, duplicated>>

NoCall == [op |-> "none", arg |-> <<>>, out |-> <<>>]

NoHistory == [finished |-> {}, forfeits |-> {}, lateMoves |-> {}, lateSubmits |-> {},
              movedIn |-> {}]

InitIdle ==
  /\ match = NoMatch
  /\ roundTimers = {}
  /\ duplicated = 0
  /\ hist = NoHistory
  /\ declineTimers = {}
  /\ useWinnings = NoWinnings
  /\ calc = NoCall

\* The match starts where a private points game has just been joined by the opponent:
\* the creator's client has handled game_created, and player_joined and game_started
\* are on their way to it.
PlaySession == SessionFilled(NewSession("private", "points", myPlayerId, FALSE), myPlayerId)

InitMatch ==
  /\ gameState = [LobbyState EXCEPT !.gameId = PlayGame, !.gameStatus = "waiting"]
  /\ isInGame = TRUE
  /\ countdowns = 0
  /\ stakeOps = {}
  /\ sessions = [g \in GameIds |-> IF g = PlayGame THEN PlaySession ELSE NoSession]
  /\ down = AfterJoin("player_joined", PlayGame, PlaySession)
  /\ up = <<>>
  /\ myStake = [g \in GameIds |-> "none"]
  /\ ackLog = {}
  /\ failLog = {}
  /\ onErrors = {}
  /\ leftLog = {}
  /\ srvAckLog = {}
  /\ match = NewMatch
  /\ roundTimers = {}
  /\ duplicated = 0
  /\ hist = NoHistory
  /\ declineTimers = {}
  /\ useWinnings = NoWinnings
  /\ calc = NoCall

playFrame == <<autoVars, finVars, stakeOps, sessions, myStake, ackLog, failLog, onErrors,
               srvAckLog, declineVars, winVars, calc>>

NextPlay ==
  \/ \E move \in Moves : makeMove(move) /\ UNCHANGED playFrame
  \/ leaveGame /\ UNCHANGED <<autoVars, finVars, playVars, declineVars, winVars, calc>>
  \/ DeliverPlay /\ UNCHANGED playFrame
  \/ CountdownEnds /\ UNCHANGED <<autoVars, finVars, playVars, declineVars, winVars, calc>>
  \/ \E r \in 1..MaxRounds : NextRoundTimer(r) /\ UNCHANGED playFrame
  \/ SrvSubmitMove /\ UNCHANGED playFrame
  \/ SrvNextRound /\ UNCHANGED playFrame
  \/ SrvLeaveMatch /\ UNCHANGED playFrame
  \/ \E move \in Moves : OppSubmitsMove(move) /\ UNCHANGED playFrame
  \/ \E type \in {"player_left", "player_disconnected"} : OppLeaves(type) /\ UNCHANGED playFrame
  \/ DuplicateDown /\ UNCHANGED playFrame
  \/ DuplicateUp /\ UNCHANGED playFrame

\* ================================================================
\* Single calls: handlers and helpers whose result depends on their arguments only.
\* ================================================================
\* One call is made in a behaviour: the results do not depend on earlier calls.
Call(op, arg, out) == calc = NoCall /\ calc' = [op |-> op, arg |-> arg, out |-> out]

calcFrame == <<autoVars, finVars, gameVars, playVars, declineVars, winVars>>

\* ---- handleGameError (use-game.ts:817-842)
Statuses == {"lobby", "waiting", "playing", "round-result", "game-over"}

\* The game states the client can hold when an event arrives.
ClientStates ==
  {[LobbyState EXCEPT !.gameId = g, !.gameStatus = st, !.hasP2 = st \notin {"lobby"},
                      !.currentRound = r, !.wins = [p \in Players |-> IF p = "p1" THEN w ELSE 0]] :
     g \in 0..MaxGames, st \in Statuses, r \in 1..2, w \in 0..1}

\* An error payload: gameId (0 when absent) and whether it carries a message.
ErrorPayloads == [game : 0..MaxGames, message : BOOLEAN]

\* Whether handleGameError passes the message on to options.onError.
GameErrorReported(gs, data) ==
  /\ ~(data.game # 0 /\ gs.gameId # 0 /\ data.game # gs.gameId)
  /\ ~(gs.gameStatus = "lobby" \/ gs.gameId = 0)
  /\ data.message

\* (variant) an error for the current game throws the client back to the lobby.
AfterGameError_Reset(gs, data) == IF GameErrorReported(gs, data) THEN LobbyState ELSE gs

\* handleGameError never calls setGameState.
AfterGameError(gs, data) == gs

CallHandleGameError ==
  \E gs \in ClientStates, data \in ErrorPayloads :
    Call("handleGameError", [state |-> gs, data |-> data],
         [state |-> AfterGameError(gs, data), reported |-> GameErrorReported(gs, data)])

\* ---- the fee computation (part_010:325-329, use-anchor-program.ts:346-349)
\* Stakes are counted in thousandths of a SOL, fees and payouts in hundred-thousandths
\* (pot in thousandths times a rate in percent); the rounding of JavaScript doubles
\* is not represented.
MaxStake == 60
Stakes == 1..MaxStake

\* part_010:327  stakeAmount <= 0.01 ? 0.05 : stakeAmount <= 0.05 ? 0.03 : 0.02
ServiceFeeRate(s) == IF s <= 10 THEN 5 ELSE IF s <= 50 THEN 3 ELSE 2

\* (variant) the client's tiers exclude their upper limits.
ClientFeeRate_Strict(s) == IF s < 10 THEN 5 ELSE IF s < 50 THEN 3 ELSE 2

\* use-anchor-program.ts:347  stakeInSol <= 0.01 ? 0.05 : stakeInSol <= 0.05 ? 0.03 : 0.02
ClientFeeRate(s) == IF s <= 10 THEN 5 ELSE IF s <= 50 THEN 3 ELSE 2

\* part_010:326-329
ServiceFees(s) ==
  LET totalPot == s * 2
      feeRate == ServiceFeeRate(s)
      platformFee == totalPot * feeRate
      expectedWinnings == totalPot * 100 - platformFee
  IN  [totalPot |-> totalPot, feeRate |-> feeRate, platformFee |-> platformFee,
       expectedWinnings |-> expectedWinnings]

\* use-anchor-program.ts:346-348  stakeInSol * 2 * (1 - feeRate)
ClientFees(s) ==
  LET feeRate == ClientFeeRate(s)
  IN  [feeRate |-> feeRate, expectedWinnings |-> s * 2 * (100 - feeRate)]

CallFees ==
  \E s \in Stakes :
    Call("fees", s, [service |-> ServiceFees(s), client |-> ClientFees(s)])

\* ---- the escrow address (use-anchor-program.ts:123-132, part_010:70-79,
\* ---- use-game.ts:103-112)
\* Length of the longest game id tried.
MaxIdLen == 4
\* The seed limit, substring(0, 32) in the sources, scaled to the ids tried.
SeedLimit == 3

IdChars == {"a", "b", "-"}
GameIdStrings == UNION {[1..n -> IdChars] : n \in 1..MaxIdLen}

IsNoDash(c) == c # "-"

\* gameId.replace(/-/g, '')
StripDashes(id) == SelectSeq(id, IsNoDash)

\* .substring(0, 32)
Truncate(id) == IF Len(id) <= SeedLimit THEN id ELSE SubSeq(id, 1, SeedLimit)

\* PublicKey.findProgramAddressSync(seeds, programId)[0] is a function of its inputs.
ProgramAddress(seeds, programId) == <<programId, seeds>>

\* use-anchor-program.ts:12, part_010:23, use-game.ts:53
HookProgramId == "GstXQkBpu26KABj6YZ3pYKJhQphoQ72YL1zL38NC6D9U"
ServiceProgramId == "GstXQkBpu26KABj6YZ3pYKJhQphoQ72YL1zL38NC6D9U"
ClientProgramId == "GstXQkBpu26KABj6YZ3pYKJhQphoQ72YL1zL38NC6D9U"

\* (variant) the service derives the address from the id as given, dashes included.
ServiceFindGamePDA_Raw(gameId) == ProgramAddress(<<"game", Truncate(gameId)>>, ServiceProgramId)

\* use-anchor-program.ts:123-132, called by createGame (577) and joinGame (735)
HookFindGamePDA(gameId) ==
  ProgramAddress(<<"game", Truncate(StripDashes(gameId))>>, HookProgramId)

\* part_010:70-79, called by autoFinalizeSolGame (136)
ServiceFindGamePDA(gameId) ==
  ProgramAddress(<<"game", Truncate(StripDashes(gameId))>>, ServiceProgramId)

\* use-game.ts:103-112
getGamePDA(gameId) ==
  ProgramAddress(<<"game", Truncate(StripDashes(gameId))>>, ClientProgramId)

CallFindGamePDA ==
  \E id \in GameIdStrings :
    Call("findGamePDA", id,
         [createGame |-> HookFindGamePDA(id), joinGame |-> HookFindGamePDA(id),
          service |-> ServiceFindGamePDA(id), client |-> getGamePDA(id)])

\* ---- the Round Resolution Engine (spec.md 4.1.a); its code is not part of the sources
ValidMoves == {"rock", "paper", "scissors"}

MovesOf(moveA, moveB) == [p \in Players |-> IF p = "p1" THEN moveA ELSE moveB]

\* (variant) equal moves go to the first player.
resolve_NoDraw(moveA, moveB) ==
  [winner |-> IF RoundWinner(MovesOf(moveA, moveB)) = "p2" THEN "B" ELSE "A"]

\* resolve(moveA, moveB) -> {winner: A|B|draw}, A being the coordinator's first player.
resolve(moveA, moveB) ==
  LET w == RoundWinner(MovesOf(moveA, moveB)) IN
  [winner |-> IF w = "p1" THEN "A" ELSE IF w = "p2" THEN "B" ELSE "draw"]

CallResolve ==
  \E a \in ValidMoves, b \in ValidMoves :
    Call("resolve", <<a, b>>, [ab |-> resolve(a, b), ba |-> resolve(b, a)])

\* ---- a whole match, round by round, with every event delivered once and in order
\* ---- (spec.md 4.1; use-game.ts:541-657, 762-815)
MaxMatchRounds == 5

Outcomes == {"p1", "p2", "draw"}

RoundSequences == UNION {[1..n -> Outcomes] : n \in 1..MaxMatchRounds}

\* A pair of moves that gives a round the outcome o.
MovesFor(o) ==
  CASE o = "p1" -> MovesOf("paper", "rock")
    [] o = "p2" -> MovesOf("rock", "paper")
    [] OTHER    -> MovesOf("rock", "rock")

\* use-anchor-program.ts:625: createGame(gameId, stakeAmountBN, currencyType, 3).
OnchainRoundsToWin == 3

\* The client handling an event of the match; for next_round, its timeout included.
ApplyPlayEvent(gs, data) ==
  CASE data.type = "move_submitted"  -> AfterMoveSubmitted(gs, data)
    [] data.type = "round_completed" -> AfterRoundCompleted(gs, data)
    [] data.type = "game_finished"   -> AfterGameFinished(gs, data)
    [] data.type = "next_round"      -> AfterNextRound(gs, data.round)
    [] data.type = "player_left"     -> AfterPlayerLeft(gs)
    [] data.type = "player_disconnected" -> AfterPlayerDisconnected(gs, data)
    [] OTHER                         -> gs

RECURSIVE ApplyPlayEvents(_, _)
ApplyPlayEvents(gs, evs) ==
  IF evs = <<>> THEN gs ELSE ApplyPlayEvents(ApplyPlayEvent(gs, Head(evs)), Tail(evs))

\* A submit_move reaching the coordinator; s holds the match and the events emitted.
SubmitTo(s, player, move) ==
  IF MoveAccepted(s.match, player)
    THEN LET t == AfterMove(s.match, player, move) IN
         [match |-> t, events |-> s.events \o MoveEvents(s.match, t, player, move)]
    ELSE s

\* Both players submit the moves of one round, the coordinator resolves it and, unless
\* the match is over, starts the next one; the client handles the events.
PlayRound(s, o) ==
  LET a == SubmitTo([match |-> s.match, events |-> <<>>], "p1", MovesFor(o)["p1"])
      b == SubmitTo(a, "p2", MovesFor(o)["p2"])
      c == IF b.match.status = "round-result"
             THEN LET n == StartNextRound(b.match) IN
                  [match |-> n,
                   events |-> Append(b.events, PlayEvent("next_round", n, "none", "none"))]
             ELSE b
  IN  [match |-> c.match, state |-> ApplyPlayEvents(s.state, c.events)]

\* The match and the client's state after each round of a sequence of rounds.
RECURSIVE PlayRounds(_, _)
PlayRounds(s, os) ==
  IF os = <<>> THEN <<>>
  ELSE LET t == PlayRound(s, Head(os)) IN <<t>> \o PlayRounds(t, Tail(os))

MatchStart ==
  [match |-> NewMatch,
   state |-> [LobbyState EXCEPT !.gameId = PlayGame, !.gameStatus = "playing", !.hasP2 = TRUE]]

CallPlayRounds ==
  \E os \in RoundSequences : Call("playRounds", os, PlayRounds(MatchStart, os))

\* ---- a gameplay event of another session reaching the client (use-game.ts:541-699,
\* ---- 762-815, 904-930)
GameplayEvents == {"move_submitted", "round_completed", "next_round", "game_finished",
                   "player_left", "player_disconnected"}

\* The event as a session other than the client's would send it: the opponent of that
\* session has moved, won a round, won the match, or left.
ForeignEvents(gs) ==
  {[Event(type, g, NoSession) EXCEPT
      !.gameStatus = "playing", !.hasP2 = TRUE, !.round = 2,
      !.wins = [p \in Players |-> IF p = opponentId THEN 1 ELSE 0],
      !.player = opponentId, !.move = "rock", !.winner = opponentId] :
     type \in GameplayEvents, g \in GameIds \ {gs.gameId}}

CallForeignEvent ==
  \E gs \in {s \in ClientStates : s.gameId # 0} :
    \E data \in ForeignEvents(gs) :
      Call("foreignEvent", [state |-> gs, data |-> data], ApplyPlayEvent(gs, data))

\* leaveGame called in a session, with the wallet connected or not and the socket
\* connected or not.
CallLeaveGame ==
  \E gs \in {s \in ClientStates : s.gameId # 0} :
    \E hasPublicKey \in BOOLEAN, socketConnected \in BOOLEAN :
      Call("leaveGame",
           [state |-> gs, hasPublicKey |-> hasPublicKey, socketConnected |-> socketConnected],
           AfterLeaveGame(gs, TRUE, hasPublicKey, socketConnected))

NextCalc ==
  \/ CallHandleGameError /\ UNCHANGED calcFrame
  \/ CallFees /\ UNCHANGED calcFrame
  \/ CallFindGamePDA /\ UNCHANGED calcFrame
  \/ CallResolve /\ UNCHANGED calcFrame
  \/ CallPlayRounds /\ UNCHANGED calcFrame
  \/ CallForeignEvent /\ UNCHANGED calcFrame
  \/ CallLeaveGame /\ UNCHANGED calcFrame

\* ================================================================ specifications
Init == InitAuto /\ InitFin /\ InitGame /\ InitIdle

SpecAuto == Init /\ [][NextAuto]_vars

SpecFin == Init /\ [][NextFin]_vars

\* The session model runs with no on-chain game account.
InitSession == Init /\ chain = NoGame /\ winnerProfile = "noAccount" /\ realWinner = "p1"

SpecGame == InitSession /\ [][NextGame]_vars

\* The match model: no on-chain game account, a points game about to start.
InitPlay ==
  /\ InitAuto /\ InitFin
  /\ chain = NoGame /\ winnerProfile = "noAccount" /\ realWinner = "p1"
  /\ InitMatch

SpecPlay == InitPlay /\ [][NextPlay]_vars

\* Staking, from the moment the client has its place in a SOL session.
InitStake ==
  /\ InitAuto /\ InitFin /\ chain = NoGame /\ winnerProfile = "noAccount" /\ realWinner = "p1"
  /\ InitStaking /\ InitIdle

SpecStake == InitStake /\ [][NextStake]_vars

\* Declined invitations, from the lobby.
SpecDecline == InitSession /\ [][NextDecline]_vars

\* The winnings list, from the hook's first render.
SpecWin == InitSession /\ [][NextWin]_vars

\* Single calls leave everything else at rest.
SpecCalc == InitSession /\ [][NextCalc]_vars

\* ================================================================ claims
\* ------------------------------------------------ Auto-Finalization Service
\* part_010:209,322  the two places where autoFinalizeSolGame submits a transaction.
MaxSubmissions == 2

Submitted(i, kind) == \E k \in 1..Len(aSubs[i]) : aSubs[i][k] = kind

Payouts == {k \in 1..Len(txLog) : txLog[k].kind = "finalize" /\ txLog[k].ok}

\* C2: finalization is idempotent per session: an invocation made after an earlier one
\* has returned success (the session is settled) is a no-op that submits no ledger
\* transaction and returns the existing (successful) result, and the session is paid
\* out exactly once.
C2_FinalizeIdempotent ==
  \A i \in Inv :
    aAfter[i].settled =>
      /\ aSubs[i] = <<>>
      /\ (aSeen[i].read /\ apc[i] = "done") => aResult[i] = "true"
      /\ Cardinality(Payouts) = 1

\* C3: the ledger submissions of two invocations for the same session never
\* interleave: in the order the ledger sees them, no submission of another invocation
\* lies between two submissions of one invocation.
C3_SubmissionsSerialized ==
  \A a, b, c \in 1..Len(txLog) :
    (a < b /\ b < c /\ txLog[a].inv = txLog[c].inv) => txLog[b].inv = txLog[a].inv

\* C4: settlement is atomic: in no state has the service marked the on-chain game
\* finished with a winner while the payout (with fee and referral cut) is not made.
C4_AtomicSettlement ==
  (chain.status = "finished" /\ chain.markedBy = "service" /\ chain.winner \in Players)
    => chain.escrow = "paid"

\* C6: an invocation submits the finalize transaction only after its own set_winner
\* has succeeded, and an invocation whose set_winner step failed submits no finalize.
C6_FinalizeAfterSetWinner ==
  /\ \A b \in 1..Len(txLog) :
       txLog[b].kind = "finalize" =>
         \E a \in 1..(b - 1) :
           txLog[a].inv = txLog[b].inv /\ txLog[a].kind = "set_winner" /\ txLog[a].ok
  /\ \A i \in Inv :
       aThrown[i] \in {"set_winner", "verify"} => ~Submitted(i, "finalize")

\* C6 witness: one invocation's set_winner failed and it returned without finalizing,
\* another invocation submitted finalize after its set_winner.
C6_Witness ==
  \E i, j \in Inv :
    /\ aThrown[i] = "set_winner" /\ apc[i] = "done"
    /\ Submitted(j, "finalize")

\* C9: an attempt that follows a failed one acts on the on-chain state it reads: if
\* the game is already settled it submits nothing, and if the winner is already
\* marked but not paid it does not submit set_winner again.
C9_RetryActsOnChainState ==
  \A i \in Inv :
    (aAfter[i].failed /\ aSeen[i].read) =>
      /\ aSeen[i].settled => aSubs[i] = <<>>
      /\ (aSeen[i].winnerMarked /\ ~aSeen[i].settled) => ~Submitted(i, "set_winner")

FundMoving == {"finalize_game", "finalize_abandoned_game"}

\* C5: recovery never lets the on-chain outcome differ from the off-chain result: a
\* winner marked on-chain is the real winner, and stakes that left the escrow were
\* paid to the real winner.
C5_RecoveryMatchesResult ==
  /\ chain.winner \in Players => chain.winner = realWinner
  /\ (chain.exists /\ chain.escrow # "held") =>
        (chain.escrow = "paid" /\ chain.paidTo = realWinner)

\* C7: finalizeGame submits finalize_game only when the on-chain game is finished.
C7_FinalizeOnlyWhenFinished ==
  \A k \in 1..Len(fSubs) :
    fSubs[k].kind = "finalize_game" => fSubs[k].finishedBefore

\* C8: once recovery has failed, the call submits no fund-moving transaction, and it
\* ends in an error surfaced to the caller with the stakes still in escrow.
C8_FailedRecoveryLeavesEscrow ==
  /\ \A k \in 1..Len(fSubs) :
       fSubs[k].recovery = "failed" => fSubs[k].kind \notin FundMoving
  /\ (fRecovery = "failed" /\ fpc = "done") => fResult = "threw"

\* C11: handleGameStartedPreTx sends a stake acknowledgment only after the player's own stake transaction
\* has been confirmed on-chain: never when the call submitted no transaction, never
\* while the submitted transaction is unconfirmed.
C11_AckOnlyAfterConfirmedStake ==
  \A a \in ackLog : a.via = "pre_tx" => a.tx = "confirmed"

\* C12: an acknowledgment received twice (HTTP and socket) leaves the session as one
\* receipt does, and it is credited to the sender's slot only: a slot is acknowledged
\* exactly when an acknowledgment for that slot was received.
ApplyAck(s, slot) == IF AckAccepted(s) THEN RecordAck(s, slot) ELSE s

C14_StakedLeaveRefunds ==
  \A l \in leftLog :
    (l.gameType = "private" /\ l.creator /\ l.staked /\ l.status = "waiting") => l.refundIssued

\* C15: after the user left a waiting session, handleGameStartedPreTx starts no stake
\* transaction and sends no stake acknowledgment for that session.
C15_NoStakeActivityAfterLeave ==
  /\ \A op \in stakeOps : op.via = "pre_tx" => ~op.afterLeave
  /\ \A a \in ackLog : a.via = "pre_tx" => ~a.afterLeave

\* C16: every failed stake transaction of the client is reported through onError,
\* is not acknowledged to the coordinator, and leaves the session state as it was.
C16_StakeFailureRecoverable ==
  /\ \A f \in failLog : f.stateKept /\ f.acksKept
  /\ failLog # {} => "stake" \in onErrors
  /\ \A g \in GameIds :
       myStake[g] = "failed" =>
         /\ "stake" \in onErrors
         /\ \A a \in ackLog : a.staked # g

\* ------------------------------------------------ the match in progress
Terminal == {"game-over", "cancelled"}

\* C17: once the client's status is game-over (or cancelled) no step changes it to
\* waiting, playing or round-result: whatever event arrives later or twice and
\* whatever timer fires, the status stays, or the session is evicted (lobby).
C17_TerminalStatusStays ==
  [][gameState.gameStatus \in Terminal =>
       gameState'.gameStatus \in Terminal \cup {"lobby"}]_vars

C19_DisconnectSameAsLeave ==
  gameState.gameStatus = "playing" =>
    LET data == PlayEvent("player_disconnected", match, opponentId, "none") IN
      /\ AfterPlayerDisconnected(gameState, data) = AfterPlayerLeft(gameState)
      /\ PlayerDisconnectedReport.winner = PlayerLeftReport.winner
      /\ PlayerDisconnectedReport.reason = PlayerLeftReport.reason

C23_ReferrerIsOnFile ==
  \A i \in Inv :
    Submitted(i, "finalize") =>
      (aReferrer[i] = "referrer" <=> winnerProfile = "hasReferrer")

\* C25: in every state of the client, a player whose current move is set is ready,
\* the round-result state included.
C25_MoveImpliesReady ==
  \A p \in Players : gameState.moves[p] # "none" => gameState.ready[p]

\* C26: a call of finalizeGame submits reveal_moves only when the commitment it
\* submitted itself (with the move and nonce it is about to reveal) has been stored
\* by the ledger, so the reveal is for an outstanding commitment and hashes to it.
C26_RevealOnlyAfterCommit ==
  \A k \in 1..Len(fSubs) :
    fSubs[k].kind = "reveal_moves" =>
      \E j \in 1..(k - 1) : fSubs[j].kind = "submit_move" /\ fSubs[j].res = "ok"

\* C27: while exactly one stake acknowledgment is recorded for the client's session
\* and the client shows it as waiting, the last tick of a countdown timer leaves both
\* the coordinator's session and the client's status in waiting.
OnlyOneAck(s) == s.state = "waiting" /\ s.ackP1 # s.ackP2

C27_NoTimerLeavesWaiting ==
  [][(/\ countdowns' < countdowns
      /\ gameState.gameId # 0
      /\ gameState.gameStatus = "waiting"
      /\ OnlyOneAck(sessions[gameState.gameId]))
       => (/\ gameState'.gameStatus = "waiting"
           /\ sessions'[gameState.gameId].state = "waiting")]_vars

\* C30: for one session the client submits at most one stake transaction: no
\* createGame or joinGame transaction goes out for a game for which this client has
\* already submitted one, whatever stake requests are delivered, and however often.
C30_AtMostOneStakeTransaction ==
  \A a \in ackLog : a.tx # "none" => a.earlier = 0

\* C31: finalizeGame returns true only when the winner's payout has been transferred
\* on-chain, by this call or earlier: never while the escrow still holds the stakes,
\* never when the stakes were refunded.
C31_TrueOnlyWhenPaid ==
  (fpc = "done" /\ fResult = "true") => (chain.exists /\ chain.escrow = "paid")

C33_LobbyIffNoGame ==
  /\ gameState.gameStatus = "lobby" <=> gameState.gameId = 0
  /\ ~isInGame <=> gameState.gameId = 0

\* C35: when the opponent leaves a match in progress while the client shows
\* round-result, the remaining player is declared winner by forfeit: the client goes
\* to game-over with itself as winner, not back to the lobby.
C35_ForfeitInRoundResult ==
  \A f \in hist.forfeits :
    (f.via = "player_left" /\ f.before = "round-result") =>
      (f.after = "game-over" /\ f.winner = myPlayerId)

\* C37: the reset started by player_declined_invitation and applied 3 seconds later
\* only discards the session whose invitation was declined: when it fires after the
\* client has left, or has created or joined another session, it changes nothing.
C37_DelayedResetOnlyOwnSession ==
  [][\A g \in declineTimers :
       (g \notin declineTimers' /\ gameState.gameId # g) =>
         (gameState' = gameState /\ isInGame' = isInGame)]_vars

\* C38: every createGame call generates a game id that differs from the id of every
\* session created so far by any client, so no two sessions share an id.
C38_FreshGameId ==
  [][(Len(up') = Len(up) + 1 /\ up'[Len(up')].type = "create_game") =>
       LET g == up'[Len(up')].game IN
         /\ sessions[g].state = "none"
         /\ \A k \in 1..Len(up) : ~(up[k].type = "create_game" /\ up[k].game = g)]_vars

\* C39: in useWinnings at most one fetch is in flight at a time: a refreshWinnings or
\* loadMore call made while an earlier fetch has not completed performs no request.
C39_OneFetchInFlight == Cardinality(useWinnings.inflight) <= 1

\* ------------------------------------------------ single calls
\* C21: handling an error event changes no field of the client's game state, whatever
\* the state and whatever the payload.
C21_ErrorLeavesStateUnchanged ==
  calc.op = "handleGameError" => calc.out.state = calc.arg.state

\* An error for the game being played has been reported to the user.
C21_Witness ==
  /\ calc.op = "handleGameError" /\ calc.out.reported
  /\ calc.arg.state.gameStatus = "playing" /\ calc.arg.data.game = calc.arg.state.gameId

C24_SameEscrowAddress ==
  calc.op = "findGamePDA" =>
    /\ calc.out.createGame = calc.out.joinGame
    /\ calc.out.joinGame = calc.out.service
    /\ calc.out.service = calc.out.client
    /\ calc.out.service[2][1] = "game"
    /\ Len(calc.out.service[2][2]) <= SeedLimit
    /\ \A k \in 1..Len(calc.out.service[2][2]) : calc.out.service[2][2][k] # "-"

\* An id with a dash, longer than the limit once the dash is stripped, has been tried.
C24_Witness ==
  /\ calc.op = "findGamePDA"
  /\ \E k \in 1..Len(calc.arg) : calc.arg[k] = "-"
  /\ Len(StripDashes(calc.arg)) >= SeedLimit
  /\ Len(calc.out.service[2][2]) = SeedLimit

\* C28: for all valid moves a, b: resolve(a, b) names A exactly when resolve(b, a)
\* names B, resolve(a, a) is a draw, and A wins exactly with rock over scissors,
\* scissors over paper or paper over rock.
C28_ResolveAntiSymmetric ==
  calc.op = "resolve" =>
    LET a == calc.arg[1]
        b == calc.arg[2] IN
    /\ calc.out.ab.winner = "A" <=> calc.out.ba.winner = "B"
    /\ calc.out.ab.winner = "B" <=> calc.out.ba.winner = "A"
    /\ a = b => calc.out.ab.winner = "draw"
    /\ calc.out.ab.winner = "A" <=> \/ (a = "rock" /\ b = "scissors")
                                     \/ (a = "scissors" /\ b = "paper")
                                     \/ (a = "paper" /\ b = "rock")
    /\ calc.out.ab.winner = "draw" => a = b

\* scissors against rock has been resolved, for B.
C28_Witness ==
  calc.op = "resolve" /\ calc.arg = <<"scissors", "rock">> /\ calc.out.ab.winner = "B"

C34_ForeignEventIgnored ==
  calc.op = "foreignEvent" => calc.out = calc.arg.state

\* C36: leaveGame called in a session (gameId non-null) always returns with the local
\* state reset to lobby (gameId null, isInGame false, scores and moves cleared), whether
\* or not leave_game could be sent and whether or not the wallet is still connected.
C36_LeaveAlwaysResets ==
  calc.op = "leaveGame" =>
    (calc.out.state = LobbyState /\ ~calc.out.isInGame)

\* ------------------------------------------------ the client's session state
\* C1: for a SOL match the client's status is never `playing` until the coordinator
\* has recorded both players' stake acknowledgments for the client's game.
C1_NoPlayingBeforeBothAcks ==
  (gameState.gameStatus = "playing" /\ gameState.currency = "sol" /\ gameState.gameId # 0)
    => (sessions[gameState.gameId].ackP1 /\ sessions[gameState.gameId].ackP2)

====
